---- MODULE Spec2Model ----
(***************************************************************************)
(* Model of the SlitherStakes room simulation: the Snake entity, the       *)
(* FoodManager, the CollisionDetector and Room.update / Room.handleDeath.  *)
(*                                                                         *)
(* Fixed-point arithmetic stands for the source's floating point:          *)
(*   lengths and positions are in 1/100 of a world unit,                   *)
(*   angles are in milliradians,                                           *)
(*   money is in 1/10000 of a dollar, fees are in percent,                 *)
(*   sines and cosines are in 1/1000.                                      *)
(***************************************************************************)
EXTENDS Integers, Sequences, FiniteSets, TLC

(***************************************************************************)
(* Bounds of the model.                                                    *)
(***************************************************************************)
\* ticks of Room.update explored
MaxTicks == 2
\* player commands (input, boost, join, leave, respawn) explored
MaxCmds == 1
\* the FoodManager's targetFoodCount (room.js passes FOOD_COUNT = 500)
TargetFoodCount == 2
\* direct Snake method calls explored by the entity-level specification
MaxCalls == 5
\* bot ids in the pool
MaxBotIds == 8
\* direct FoodManager method calls explored by the food-level specification
MaxFoodCalls == 4
\* calls of the Room's bot operations explored per behaviour
MaxBotCmds == 2
\* ticks are explored for rooms of at most this many snakes
MaxSnakes == 4
\* RoomManager commands explored per behaviour
MaxManagerCmds == 4
\* the clock is explored up to this many milliseconds
MaxNow == 125000

(***************************************************************************)
(* Program constants, in the fixed-point units above.                      *)
(***************************************************************************)
SEGMENT_SPACING == 500
BASE_SPEED == 300
BOOST_SPEED == 600
HEAD_RADIUS == 1500
SEGMENT_RADIUS == 1200
INITIAL_LENGTH == 10
MIN_LENGTH == 3
TURN_RATE_BASE == 150
TURN_RATE_SCALE == 5
WORLD_WIDTH == 400000
WORLD_HEIGHT == 400000
\* Math.PI in milliradians
PI == 3142
TAU == 2 * PI
HALF_PI == 1571

None == "none"

(***************************************************************************)
(* Arithmetic.                                                             *)
(***************************************************************************)
Abs(n) == IF n < 0 THEN -n ELSE n

Min(a, b) == IF a < b THEN a ELSE b

Max(a, b) == IF a > b THEN a ELSE b

Sign(n) == IF n > 0 THEN 1 ELSE IF n < 0 THEN -1 ELSE 0

\* n / d rounded toward zero (d > 0)
Div(n, d) == IF n >= 0 THEN n \div d ELSE -((-n) \div d)

RECURSIVE SqrtIter(_, _, _)
SqrtIter(n, lo, hi) ==
    IF hi - lo <= 1 THEN lo
    ELSE LET mid == (lo + hi) \div 2
         IN IF mid * mid <= n THEN SqrtIter(n, mid, hi) ELSE SqrtIter(n, lo, mid)

\* Math.sqrt, rounded down (n < 2^30)
Sqrt(n) == SqrtIter(n, 0, 32768)

\* n * n for 0 <= n < 2^20 as hi * 10^6 + lo, with lo < 10^6
WideSq(n) ==
    LET a == n \div 1000
        b == n % 1000
        low == ((2 * a * b) % 1000) * 1000 + b * b
    IN [hi |-> a * a + (2 * a * b) \div 1000 + low \div 1000000,
        lo |-> low % 1000000]

\* den * (dx*dx + dy*dy) < num * r*r, exactly, for small num and den
WideLess(dx, dy, num, den, r) ==
    LET x == WideSq(Abs(dx))
        y == WideSq(Abs(dy))
        q == WideSq(r)
        lhsLo == den * (x.lo + y.lo)
        rhsLo == num * q.lo
        lhsHi == den * (x.hi + y.hi) + lhsLo \div 1000000
        rhsHi == num * q.hi + rhsLo \div 1000000
    IN \/ lhsHi < rhsHi
       \/ lhsHi = rhsHi /\ lhsLo % 1000000 < rhsLo % 1000000

\* dx*dx + dy*dy < r*r as the source computes it; the guards on |dx| and |dy|
\* keep the squares inside TLC's integers and do not change the result
DistLess(dx, dy, r) ==
    /\ Abs(dx) < r
    /\ Abs(dy) < r
    /\ IF r <= 32767 THEN dx * dx + dy * dy < r * r
       ELSE WideLess(dx, dy, 1, 1, r)

\* sin of an angle x in 0..PI, in 1/1000
SinHalf(x) ==
    LET p == x * (PI - x)
        num == (16 * p) \div 40
        den == (5 * PI * PI - 4 * p) \div 40
    IN (num * 1000) \div den

\* Math.sin, in 1/1000
Sin(a) ==
    LET m == a % TAU
    IN IF m <= PI THEN SinHalf(m) ELSE -SinHalf(m - PI)

\* Math.cos, in 1/1000
Cos(a) == Sin(a + HALF_PI)

\* atan(n/d) for 0 <= n <= d, d > 0
AtanRatio(n, d) ==
    LET z == (1000 * n) \div d
    IN (z * (785 + (273 * (1000 - z)) \div 1000)) \div 1000

\* Math.atan2(dy, dx)
Atan2(dy, dx) ==
    IF dx = 0 /\ dy = 0 THEN 0
    ELSE LET ax == Abs(dx)
             ay == Abs(dy)
             base == IF ay <= ax THEN AtanRatio(ay, ax)
                     ELSE HALF_PI - AtanRatio(ax, ay)
         IN IF dx >= 0 THEN (IF dy >= 0 THEN base ELSE -base)
            ELSE (IF dy >= 0 THEN PI - base ELSE -(PI - base))

(***************************************************************************)
(* Snake (the Entity Model).  A snake is a record; segments is the body in *)
(* head-to-tail order, segments[i + 1] being the source's segments[i].     *)
(***************************************************************************)
Pt(x, y) == [x |-> x, y |-> y]

\* Snake.initializeSegments: segment i lies (i + 1) spacings behind the head
initializeSegments(x, y, angle, n) ==
    [i \in 1..n |-> Pt(x - Div(i * SEGMENT_SPACING * Cos(angle), 1000),
                       y - Div(i * SEGMENT_SPACING * Sin(angle), 1000))]

\* new Snake(id, name, x, y): angle is the constructor's random angle
NewSnake(id, x, y, angle) ==
    [id |-> id, x |-> x, y |-> y, angle |-> angle, targetAngle |-> angle,
     segments |-> initializeSegments(x, y, angle, INITIAL_LENGTH),
     alive |-> TRUE, boosting |-> FALSE, kills |-> 0, value |-> 0,
     isBot |-> FALSE, maxLength |-> INITIAL_LENGTH, foodEaten |-> 0]

length(s) == Len(s.segments)

headRadius(s) == HEAD_RADIUS + Min(length(s) * 10, 1000)

segmentRadius(s) == SEGMENT_RADIUS + Min(length(s) * 8, 800)

turnRate(s) == Max(30, TURN_RATE_BASE - length(s) * TURN_RATE_SCALE)

speed(s) ==
    LET baseSpeed == IF s.boosting THEN BOOST_SPEED ELSE BASE_SPEED
    IN baseSpeed - Min(length(s), 100)

setTarget(s, x, y) == [s EXCEPT !.targetAngle = Atan2(y - s.y, x - s.x)]

setBoost(s, active) == [s EXCEPT !.boosting = active /\ length(s) > MIN_LENGTH]

RECURSIVE NormalizeAngle(_)
\* the two while loops that bring angleDiff into [-PI, PI]
NormalizeAngle(d) ==
    IF d > PI THEN NormalizeAngle(d - TAU)
    ELSE IF d < -PI THEN NormalizeAngle(d + TAU)
    ELSE d

\* a rotation that takes the difference of the angles as it is
rotateRaw(s) ==
    LET angleDiff == s.targetAngle - s.angle
    IN IF Abs(angleDiff) > turnRate(s)
       THEN [s EXCEPT !.angle = s.angle + Sign(angleDiff) * turnRate(s)]
       ELSE [s EXCEPT !.angle = s.targetAngle]

\* the rotation toward targetAngle, by at most turnRate
rotate(s) ==
    LET angleDiff == NormalizeAngle(s.targetAngle - s.angle)
    IN IF Abs(angleDiff) > turnRate(s)
       THEN [s EXCEPT !.angle = s.angle + Sign(angleDiff) * turnRate(s)]
       ELSE [s EXCEPT !.angle = s.targetAngle]

\* the head moves forward by speed along the angle
moveHead(s) ==
    [s EXCEPT !.x = s.x + Div(Cos(s.angle) * speed(s), 1000),
              !.y = s.y + Div(Sin(s.angle) * speed(s), 1000)]

\* the head left the world inset by the head radius
outOfWorld(s, worldWidth, worldHeight) ==
    LET margin == headRadius(s)
    IN \/ s.x < margin
       \/ s.x > worldWidth - margin
       \/ s.y < margin
       \/ s.y > worldHeight - margin

\* an update that leaves the head where the move put it
clampNone(s, worldWidth, worldHeight) == s

\* the world boundary clamp
clampToWorld(s, worldWidth, worldHeight) ==
    LET margin == headRadius(s)
    IN IF outOfWorld(s, worldWidth, worldHeight)
       THEN [s EXCEPT !.x = Max(margin, Min(worldWidth - margin, s.x)),
                      !.y = Max(margin, Min(worldHeight - margin, s.y))]
       ELSE s

RECURSIVE followLeader(_, _, _, _)
\* follow the leader: segments i.. of segs, the leader being at (leaderX, leaderY)
followLeader(segs, i, leaderX, leaderY) ==
    IF i > Len(segs) THEN segs
    ELSE LET seg == segs[i]
             dx == leaderX - seg.x
             dy == leaderY - seg.y
             far == \/ Abs(dx) > SEGMENT_SPACING
                    \/ Abs(dy) > SEGMENT_SPACING
                    \/ dx * dx + dy * dy > SEGMENT_SPACING * SEGMENT_SPACING
             dist == Sqrt(dx * dx + dy * dy)
             moved == IF far
                      THEN Pt(leaderX - Div(dx * SEGMENT_SPACING, dist),
                              leaderY - Div(dy * SEGMENT_SPACING, dist))
                      ELSE seg
         IN followLeader([segs EXCEPT ![i] = moved], i + 1, moved.x, moved.y)

\* Snake.shrink without the floor: a mutant of shrink
shrinkNoFloor(s, amount) ==
    [s EXCEPT !.segments = SubSeq(s.segments, 1, Max(0, length(s) - amount))]

\* Snake.shrink
shrink(s, amount) ==
    [s EXCEPT !.segments =
        SubSeq(s.segments, 1, length(s) - Min(amount, Max(0, length(s) - MIN_LENGTH)))]

\* an update without the cost of boosting
boostCostFree(s) == s

\* boosting costs mass: one segment per update above the floor
boostCost(s) ==
    IF s.boosting /\ length(s) > MIN_LENGTH THEN shrink(s, 1) ELSE s

\* Snake.update
update(s, worldWidth, worldHeight) ==
    IF ~s.alive THEN s
    ELSE LET h == clampToWorld(moveHead(rotate(s)), worldWidth, worldHeight)
         IN boostCost([h EXCEPT !.segments = followLeader(h.segments, 1, h.x, h.y)])

\* Snake.grow
grow(s, amount) ==
    LET lastSeg == IF length(s) > 0 THEN s.segments[length(s)] ELSE Pt(s.x, s.y)
        segs == s.segments \o [i \in 1..amount |-> lastSeg]
    IN [s EXCEPT !.segments = segs,
                 !.maxLength = Max(s.maxLength, Len(segs)),
                 !.foodEaten = s.foodEaten + amount]

\* Snake.die
die(s) == [s EXCEPT !.alive = FALSE, !.boosting = FALSE]

\* Snake.getBodyPositions: the radius of segment i (0-based)
bodyRadius(s, i) == (segmentRadius(s) * (100 - i)) \div 100

(***************************************************************************)
(* FoodManager.  food is the Map id -> item; ids are drawn from a counter, *)
(* so the Map's insertion order is the order of the ids.                   *)
(***************************************************************************)
\* radius: 5 + value * 2
foodRadius(value) == 500 + value * 200

\* spawnFood's margin
FOOD_MARGIN == 5000

\* a spawn position without the margin: Math.random() * worldWidth
randomSpotNoMargin(rx, ry, worldWidth, worldHeight) ==
    Pt((rx * worldWidth) \div 1000, (ry * worldHeight) \div 1000)

\* spawnFood's random position, margin + Math.random() * (world - margin * 2);
\* rx and ry are the two draws of Math.random(), in 1/1000
randomSpot(rx, ry, worldWidth, worldHeight) ==
    Pt(FOOD_MARGIN + (rx * (worldWidth - FOOD_MARGIN * 2)) \div 1000,
       FOOD_MARGIN + (ry * (worldHeight - FOOD_MARGIN * 2)) \div 1000)

FoodItem(x, y, value) == [x |-> x, y |-> y, value |-> value, radius |-> foodRadius(value)]

\* FoodManager.spawnFood at a random position: one item of value 1
spawnFood(food, id, spot) == (id :> FoodItem(spot.x, spot.y, 1)) @@ food

\* FoodManager.addSnakeFood: items is a sequence of [x, y, value], ids from firstId
addSnakeFood(food, items, firstId) ==
    [i \in (firstId..(firstId + Len(items) - 1)) |->
        FoodItem(items[i - firstId + 1].x, items[i - firstId + 1].y,
                 items[i - firstId + 1].value)] @@ food

\* FoodManager.removeFood
removeFood(food, id) == [i \in (DOMAIN food) \ {id} |-> food[i]]

\* FoodManager.getNearby
getNearby(food, x, y, radius) ==
    {i \in DOMAIN food : DistLess(food[i].x - x, food[i].y - y, radius)}

\* a replenish that spawns once where the code loops: "if" for "while"
replenishOnce(food, nextId, spots) ==
    IF Cardinality(DOMAIN food) < TargetFoodCount
    THEN (nextId :> FoodItem(spots[1].x, spots[1].y, 1)) @@ food
    ELSE food

\* FoodManager.update and FoodManager.initialize: spawn while below the target;
\* spots[k] is the random position of the k-th spawn
replenish(food, nextId, spots) ==
    LET need == Max(0, TargetFoodCount - Cardinality(DOMAIN food))
    IN [i \in (nextId..(nextId + need - 1)) |->
           FoodItem(spots[i - nextId + 1].x, spots[i - nextId + 1].y, 1)] @@ food

\* Snake.toFood: 5 items of value 2 around the head, 2 of value 1 around each
\* segment; jit is the random scatter of this burst
toFood(s, jit) ==
    LET off(k) == Pt(jit * ((k % 3) - 1), jit * (((k \div 3) % 3) - 1))
        headFood == [k \in 1..5 |-> [x |-> s.x + off(k).x, y |-> s.y + off(k).y,
                                     value |-> 2]]
        segFood == [k \in 1..(2 * length(s)) |->
                       LET seg == s.segments[(k + 1) \div 2]
                       IN [x |-> seg.x + off(k).x, y |-> seg.y + off(k).y, value |-> 1]]
    IN headFood \o segFood

(***************************************************************************)
(* CollisionDetector.                                                      *)
(***************************************************************************)
NoCollision ==
    [killer |-> None, victim |-> None, headToHead |-> FALSE,
     otherVictim |-> None, segment |-> -1]

\* the head of snake overlaps segment i (0-based) of other
hitsSegment(snake, other, i) ==
    DistLess(snake.x - other.segments[i + 1].x, snake.y - other.segments[i + 1].y,
             headRadius(snake) + bodyRadius(other, i))

\* the least element of a non-empty set of integers
Least(S) == CHOOSE i \in S : \A j \in S : i <= j

\* the body scan without the grace window: a mutant of firstBodyHit
firstBodyHitNoGrace(snake, other) ==
    LET hits == {i \in 0..(length(other) - 1) : hitsSegment(snake, other, i)}
    IN IF hits = {} THEN -1 ELSE Least(hits)

\* the first segment of other, from index 3 on (the segments before it are the
\* grace window), that the head of snake overlaps, or -1
firstBodyHit(snake, other) ==
    LET hits == {i \in 3..(length(other) - 1) : hitsSegment(snake, other, i)}
    IN IF hits = {} THEN -1 ELSE Least(hits)

\* otherHeadDist < minHeadDist * 0.8
headContact(snake, other) ==
    DistLess(snake.x - other.x, snake.y - other.y,
             ((headRadius(snake) + headRadius(other)) * 8) \div 10)

\* one iteration of the loop over otherSnakes: the result it returns, or
\* NoCollision when the loop goes on to the next snake
checkOne(snake, other) ==
    IF other.id = snake.id \/ ~other.alive THEN NoCollision
    ELSE IF firstBodyHit(snake, other) >= 0
    THEN [NoCollision EXCEPT !.killer = other.id, !.victim = snake.id,
                             !.segment = firstBodyHit(snake, other)]
    ELSE IF headContact(snake, other)
    THEN IF Abs(length(snake) - length(other)) < 3
         THEN [NoCollision EXCEPT !.victim = snake.id, !.headToHead = TRUE,
                                  !.otherVictim = other.id]
         ELSE IF length(snake) < length(other)
         THEN [NoCollision EXCEPT !.killer = other.id, !.victim = snake.id,
                                  !.headToHead = TRUE]
         ELSE NoCollision
    ELSE NoCollision

RECURSIVE scanFrom(_, _, _)
scanFrom(snake, otherSnakes, i) ==
    IF i > Len(otherSnakes) THEN NoCollision
    ELSE LET r == checkOne(snake, otherSnakes[i])
         IN IF r.victim # None THEN r ELSE scanFrom(snake, otherSnakes, i + 1)

\* CollisionDetector.checkSnakeCollision
checkSnakeCollision(snake, otherSnakes) ==
    IF ~snake.alive THEN NoCollision ELSE scanFrom(snake, otherSnakes, 1)

\* CollisionDetector.checkFoodCollision: the ids of the eaten items
checkFoodCollision(snake, food) ==
    IF ~snake.alive THEN {}
    ELSE {i \in getNearby(food, snake.x, snake.y, headRadius(snake) + 2000) :
            DistLess(snake.x - food[i].x, snake.y - food[i].y,
                     headRadius(snake) + food[i].radius)}

\* victim.value || victim.length * 0.01
bountyBase(victim) == IF victim.value # 0 THEN victim.value ELSE length(victim) * 100

\* base * (100 - fee) / 100, rounded down, without overflow
scaleByFee(base, fee) ==
    (base \div 100) * (100 - fee) + ((base % 100) * (100 - fee)) \div 100

\* CollisionDetector.calculateBounty(victim, platformFee)
calculateBounty(victim, platformFee) == scaleByFee(bountyBase(victim), platformFee)

(***************************************************************************)
(* BotPlayer.  A bot is a record; its distances are compared squared, in   *)
(* 1/10 of a world unit, and anything farther than 450 units is Far.       *)
(***************************************************************************)
BOT_THINK_INTERVAL == 10
BOT_FOOD_SEEK_RADIUS == 30000
BOT_DANGER_RADIUS == 15000
BOT_WALL_MARGIN == 10000
BOT_BOOST_COOLDOWN == 300

Far == 2000000000

\* Math.hypot(dx, dy), squared
hypotSq(dx, dy) ==
    IF Abs(dx) > 45000 \/ Abs(dy) > 45000 THEN Far
    ELSE (Abs(dx) \div 10) * (Abs(dx) \div 10) + (Abs(dy) \div 10) * (Abs(dy) \div 10)

\* the square of the radius r, in the units of hypotSq
radiusSq(r) == (r \div 10) * (r \div 10)

\* new BotPlayer(room): the angle, the stagger of the think timer and the
\* personality are the constructor's random draws (personality in 1/1000)
NewBot(id, angle, thinkTimer, aggressiveness, foodPreference) ==
    [id |-> id, targetAngle |-> angle, thinkTimer |-> thinkTimer, boostTimer |-> 0,
     boosting |-> FALSE, aggressiveness |-> aggressiveness,
     foodPreference |-> foodPreference]

\* a value that is a number or null: <<n>> is the number n, <<>> is null
Num(n) == <<n>>
Null == <<>>

\* JavaScript's truthiness of a number or null: null and 0 are falsy
truthy(v) == v # Null /\ v[1] # 0

\* BotPlayer.calculateWallAvoidance: the angle to turn to, or null
calculateWallAvoidance(x, y, worldWidth, worldHeight) ==
    LET margin == BOT_WALL_MARGIN
        corner == (margin * 3) \div 2
    IN IF x < margin THEN Num(0)
       ELSE IF x > worldWidth - margin THEN Num(PI)
       ELSE IF y < margin THEN Num(HALF_PI)
       ELSE IF y > worldHeight - margin THEN Num(-HALF_PI)
       ELSE IF x < corner /\ y < corner THEN Num(PI \div 4)
       ELSE IF x < corner /\ y > worldHeight - corner THEN Num(-(PI \div 4))
       ELSE IF x > worldWidth - corner /\ y < corner THEN Num((PI * 3) \div 4)
       ELSE IF x > worldWidth - corner /\ y > worldHeight - corner
       THEN Num(-((PI * 3) \div 4))
       ELSE Null

\* the first index of a non-empty sequence of records whose field d is least
firstNearest(cands) ==
    CHOOSE i \in 1..Len(cands) :
        \A j \in 1..Len(cands) :
            cands[i].d < cands[j].d \/ (cands[i].d = cands[j].d /\ i <= j)

\* think's loop over the food: the nearest item, or null when every item is Far
nearestFood(mySnake, food) ==
    LET ids == {i \in DOMAIN food :
                   hypotSq(food[i].x - mySnake.x, food[i].y - mySnake.y) < Far}
        dOf(i) == hypotSq(food[i].x - mySnake.x, food[i].y - mySnake.y)
    IN IF ids = {} THEN Null
       ELSE LET f == CHOOSE i \in ids :
                        \A j \in ids : dOf(i) < dOf(j) \/ (dOf(i) = dOf(j) /\ i <= j)
            IN <<[x |-> food[f].x, y |-> food[f].y, d |-> dOf(f)]>>

\* think's loop over the snakes: what one other living snake adds to the
\* dangers, its head when it is at least 0.8 times as long, then its first
\* 10 segments
dangersOf(mySnake, snake) ==
    LET headD == hypotSq(snake.x - mySnake.x, snake.y - mySnake.y)
        head == IF headD < radiusSq(BOT_DANGER_RADIUS)
                   /\ length(snake) * 10 >= length(mySnake) * 8
                THEN <<[x |-> snake.x, y |-> snake.y, d |-> headD]>>
                ELSE <<>>
        segs == [k \in 1..Min(10, length(snake)) |->
                    [x |-> snake.segments[k].x, y |-> snake.segments[k].y,
                     d |-> hypotSq(snake.segments[k].x - mySnake.x,
                                   snake.segments[k].y - mySnake.y)]]
    IN head \o SelectSeq(segs, LAMBDA c : c.d < radiusSq(BOT_DANGER_RADIUS))

RECURSIVE dangers(_, _, _)
dangers(mySnake, snakes, i) ==
    IF i > Len(snakes) THEN <<>>
    ELSE (IF snakes[i].id = mySnake.id \/ ~snakes[i].alive THEN <<>>
          ELSE dangersOf(mySnake, snakes[i]))
         \o dangers(mySnake, snakes, i + 1)

\* the nearest danger, or null
nearestDanger(mySnake, snakes) ==
    LET cands == dangers(mySnake, snakes, 1)
    IN IF cands = <<>> THEN Null ELSE <<cands[firstNearest(cands)]>>

\* think's priority 4: the nearest living snake shorter than 0.7 times the
\* bot's length within 400, or null
smallestPrey(mySnake, snakes) ==
    LET idx == {i \in 1..Len(snakes) :
                   /\ snakes[i].id # mySnake.id
                   /\ snakes[i].alive
                   /\ length(snakes[i]) * 10 < length(mySnake) * 7
                   /\ hypotSq(snakes[i].x - mySnake.x, snakes[i].y - mySnake.y)
                         < radiusSq(40000)}
        dOf(i) == hypotSq(snakes[i].x - mySnake.x, snakes[i].y - mySnake.y)
    IN IF idx = {} THEN Null
       ELSE <<snakes[CHOOSE i \in idx :
                         \A j \in idx : dOf(i) < dOf(j) \/ (dOf(i) = dOf(j) /\ i <= j)]>>

\* the decision of think once the think interval has elapsed; rnd holds the
\* random draws: wander, the turn of the default rule, and lucky, its
\* Math.random() < BOT_BOOST_CHANCE.  timer tells whether it set a timeout.
decide(bot, mySnake, snakes, food, worldWidth, worldHeight, rnd) ==
    LET wallAvoidance == calculateWallAvoidance(mySnake.x, mySnake.y,
                                                worldWidth, worldHeight)
        danger == nearestDanger(mySnake, snakes)
        nearFood == nearestFood(mySnake, food)
        prey == IF bot.aggressiveness > 700 THEN smallestPrey(mySnake, snakes)
                ELSE Null
    IN IF truthy(wallAvoidance)
       THEN [bot |-> [bot EXCEPT !.targetAngle = wallAvoidance[1], !.boostTimer = 0],
             timer |-> FALSE]
       ELSE IF danger # Null
       THEN LET flee == danger[1].d < radiusSq(8000) /\ length(mySnake) > 15
            IN [bot |-> [bot EXCEPT
                            !.targetAngle = Atan2(mySnake.y - danger[1].y,
                                                  mySnake.x - danger[1].x),
                            !.boosting = IF flee THEN TRUE ELSE @],
                timer |-> flee]
       ELSE IF nearFood # Null
               /\ nearFood[1].d < radiusSq((BOT_FOOD_SEEK_RADIUS * bot.foodPreference)
                                            \div 1000)
       THEN [bot |-> [bot EXCEPT !.targetAngle = Atan2(nearFood[1].y - mySnake.y,
                                                       nearFood[1].x - mySnake.x)],
             timer |-> FALSE]
       ELSE IF prey # Null
       THEN LET predictX == prey[1].x + (Cos(prey[1].angle) * speed(prey[1])) \div 100
                predictY == prey[1].y + (Sin(prey[1].angle) * speed(prey[1])) \div 100
            IN [bot |-> [bot EXCEPT !.targetAngle = Atan2(predictY - mySnake.y,
                                                          predictX - mySnake.x)],
                timer |-> FALSE]
       ELSE LET boost == bot.boostTimer + 1 > BOT_BOOST_COOLDOWN /\ rnd.lucky
            IN [bot |-> [bot EXCEPT !.targetAngle = @ + rnd.wander,
                                    !.boostTimer = IF boost THEN 0 ELSE @ + 1,
                                    !.boosting = IF boost THEN TRUE ELSE @],
                timer |-> boost]

\* a think that runs its rules on every call
thinkEveryCall(bot, snakes, food, worldWidth, worldHeight, rnd) ==
    LET b == [bot EXCEPT !.thinkTimer = (@ + 1) % BOT_THINK_INTERVAL]
    IN IF bot.id \notin {snakes[i].id : i \in 1..Len(snakes)}
          \/ ~(snakes[CHOOSE i \in 1..Len(snakes) : snakes[i].id = bot.id]).alive
       THEN [bot |-> b, timer |-> FALSE]
       ELSE decide(b, snakes[CHOOSE i \in 1..Len(snakes) : snakes[i].id = bot.id],
                   snakes, food, worldWidth, worldHeight, rnd)

\* BotPlayer.think
think(bot, snakes, food, worldWidth, worldHeight, rnd) ==
    IF bot.thinkTimer + 1 < BOT_THINK_INTERVAL
    THEN [bot |-> [bot EXCEPT !.thinkTimer = @ + 1], timer |-> FALSE]
    ELSE LET b == [bot EXCEPT !.thinkTimer = 0]
         IN IF bot.id \notin {snakes[i].id : i \in 1..Len(snakes)}
               \/ ~(snakes[CHOOSE i \in 1..Len(snakes) : snakes[i].id = bot.id]).alive
            THEN [bot |-> b, timer |-> FALSE]
            ELSE decide(b, snakes[CHOOSE i \in 1..Len(snakes) : snakes[i].id = bot.id],
                        snakes, food, worldWidth, worldHeight, rnd)

(***************************************************************************)
(* Room.  snakes is the Map socketId -> Snake as the sequence of its       *)
(* values in insertion order (the order Room.update iterates in); players  *)
(* is the Map socketId -> playerData.                                      *)
(***************************************************************************)
VARIABLES
    tier,        \* the room's tier: [buy_in, platform_fee]
    snakes,      \* Room.snakes
    players,     \* Room.players
    food,        \* Room.food.food
    nextFoodId,  \* the next fresh food id (uuidv4)
    totalKills,  \* Room.totalKills
    kills,       \* the list the last Room.update returned
    ticks,       \* Room.update calls so far
    cmds,        \* player commands so far
    log,         \* history of the last step (not program state)
    bots,        \* Room.bots, in insertion order
    timers,      \* the pending setTimeout callbacks
    manager,     \* the RoomManager: rooms and playerRooms
    now          \* Date.now()

vars ==
    <<tier, snakes, players, food, nextFoodId, totalKills, kills, ticks, cmds, log,
      bots, timers, manager, now>>

Ids == {"p1", "p2"}

\* the age after which RoomManager.tick deletes a room without snakes
EMPTY_ROOM_MS == 60000

\* findAvailableRoom: a room takes a player while it has fewer snakes
ROOM_CAPACITY == 50

\* new RoomManager(io): no rooms, no players routed; removed is history
NoManager == [rooms |-> <<>>, playerRooms |-> <<>>, removed |-> <<>>]

\* the tiers a room is created with: a paid tier and the free tier as the
\* defaults have them (20 percent), and a tier that charges no fee (tiers come
\* from the database)
Tiers ==
    { [buy_in |-> 10000, platform_fee |-> 20],
      [buy_in |-> 0, platform_fee |-> 20],
      [buy_in |-> 10000, platform_fee |-> 0] }

SnakeIds(ss) == {ss[i].id : i \in 1..Len(ss)}

IndexOf(ss, id) == CHOOSE i \in 1..Len(ss) : ss[i].id = id

\* Map.delete on the snakes
DeleteSnake(ss, id) == SelectSeq(ss, LAMBDA s : s.id # id)

\* Map.set on the snakes: an existing key keeps its place, a new one goes last
SetSnake(ss, s) ==
    IF s.id \in SnakeIds(ss) THEN [ss EXCEPT ![IndexOf(ss, s.id)] = s]
    ELSE Append(ss, s)

\* history: no run of like calls on a snake
NoRun == [kind |-> "", n |-> 0, from |-> 0]

EmptyLog ==
    [pre |-> <<>>, deaths |-> <<>>, clamped |-> {}, passes |-> <<>>, foodBefore |-> 0,
     op |-> "", arg |-> None, thinks |-> <<>>, run |-> NoRun, revived |-> FALSE,
     out |-> <<>>, credits |-> <<>>, eaten |-> <<>>]

\* history: the last step was the operation op, called with arg; the bounties
\* credited so far are kept
Did(op, arg) == [EmptyLog EXCEPT !.op = op, !.arg = arg, !.credits = log.credits]

\* the room as Room.update and Room.handleDeath see and change it
RoomNow ==
    [snakes |-> snakes, players |-> players, food |-> food,
     nextFoodId |-> nextFoodId, totalKills |-> totalKills, kills |-> <<>>,
     bots |-> bots, timers |-> timers,
     log |-> [EmptyLog EXCEPT !.pre = [snakes |-> snakes, players |-> players,
                                       totalKills |-> totalKills],
                              !.op = "update",
                              !.credits = log.credits]]

\* this.tier.platform_fee || 0.20
feeOrDefault(platform_fee) == IF platform_fee # 0 THEN platform_fee ELSE 20

\* the food a dying or leaving snake drops, added to the field
dropFood(R, s, jit) ==
    LET droppedFood == toFood(s, jit)
    IN [R EXCEPT !.food = addSnakeFood(R.food, droppedFood, R.nextFoodId),
                 !.nextFoodId = R.nextFoodId + Len(droppedFood)]

\* the killer's side of Room.handleDeath
creditKiller(R, killerId, bounty) ==
    LET k == IndexOf(R.snakes, killerId)
        R1 == [R EXCEPT !.snakes[k].kills = @ + 1,
                        !.snakes[k].value = @ + bounty,
                        !.totalKills = @ + 1]
    IN IF killerId \in DOMAIN R.players
       THEN [R1 EXCEPT !.players[killerId].kills = @ + 1,
                       !.players[killerId].earnings = @ + bounty]
       ELSE R1

\* Room.handleDeath(victim, killer): the room after it and the event it returns;
\* mutual tells the history which caller applied it
handleDeath(R, victimId, killerId, mutual, jit) ==
    LET v == IndexOf(R.snakes, victimId)
        dead == die(R.snakes[v])
        R1 == dropFood([R EXCEPT !.snakes[v] = dead], dead, jit)
        R2 == IF victimId \in DOMAIN R1.players
              THEN [R1 EXCEPT !.players[victimId].deaths = @ + 1]
              ELSE R1
        bounty == IF killerId # None
                  THEN calculateBounty(dead, feeOrDefault(tier.platform_fee))
                  ELSE 0
        R3 == IF killerId # None THEN creditKiller(R2, killerId, bounty) ELSE R2
        event == [killerId |-> killerId, victimId |-> victimId, bounty |-> bounty,
                  victimLength |-> length(dead)]
    IN [room |-> [R3 EXCEPT !.log.deaths =
                     Append(@, [victim |-> victimId, killer |-> killerId,
                                bounty |-> bounty, mutual |-> mutual,
                                victimValue |-> dead.value]),
                            !.log.credits =
                     IF killerId # None
                     THEN Append(@, [to |-> killerId, bounty |-> bounty])
                     ELSE @],
        event |-> event]

\* a Room.update that credits each of a mutual head-to-head pair with the other
applyCollisionCrediting(R, collisionResult, jit) ==
    IF collisionResult.headToHead /\ collisionResult.otherVictim # None
    THEN handleDeath(handleDeath(R, collisionResult.victim, collisionResult.otherVictim,
                                 TRUE, jit).room,
                     collisionResult.otherVictim, collisionResult.victim, TRUE, jit).room
    ELSE IF collisionResult.killer # None
    THEN LET d == handleDeath(R, collisionResult.victim, collisionResult.killer,
                              FALSE, jit)
         IN [d.room EXCEPT !.kills = Append(@, d.event)]
    ELSE R

\* what Room.update does with a collision result
applyCollision(R, collisionResult, jit) ==
    IF collisionResult.headToHead /\ collisionResult.otherVictim # None
    THEN handleDeath(handleDeath(R, collisionResult.victim, None, TRUE, jit).room,
                     collisionResult.otherVictim, None, TRUE, jit).room
    ELSE IF collisionResult.killer # None
    THEN LET d == handleDeath(R, collisionResult.victim, collisionResult.killer,
                              FALSE, jit)
         IN [d.room EXCEPT !.kills = Append(@, d.event)]
    ELSE R

\* history: the snake at place i eats item f, after so many deaths of the tick
Ate(R, i, f) ==
    [by |-> R.snakes[i].id, item |-> f, value |-> R.food[f].value,
     x |-> R.food[f].x, y |-> R.food[f].y, deathsBefore |-> Len(R.log.deaths)]

RECURSIVE eatAllKeeping(_, _, _)
\* a loop over eatenFood that grows the snake and leaves the items in the field
eatAllKeeping(R, i, eaten) ==
    IF eaten = {} THEN R
    ELSE LET f == Least(eaten)
         IN eatAllKeeping([R EXCEPT !.snakes[i] = grow(@, R.food[f].value),
                                    !.log.eaten = Append(@, Ate(R, i, f))],
                          i, eaten \ {f})

RECURSIVE eatAll(_, _, _)
\* the loop over eatenFood: grow by each item's value and remove it
eatAll(R, i, eaten) ==
    IF eaten = {} THEN R
    ELSE LET f == Least(eaten)
         IN eatAll([R EXCEPT !.snakes[i] = grow(@, R.food[f].value),
                             !.food = removeFood(@, f),
                             !.log.eaten = Append(@, Ate(R, i, f))],
                   i, eaten \ {f})

\* history: the segments of other, by index, that the head circle of s overlaps
overlapped(s, other) == {i \in 0..(length(other) - 1) : hitsSegment(s, other, i)}

\* history: what the head of s meets among the other living snakes when it is
\* checked; pos is the other's place in the iteration
Observe(s, ss) ==
    {[other |-> ss[j].id, pos |-> j,
      body |-> LET past == {i \in overlapped(s, ss[j]) : i >= 3}
               IN IF past = {} THEN -1 ELSE Least(past),
      grace |-> \E i \in overlapped(s, ss[j]) : i < 3,
      head |-> headContact(s, ss[j]),
      lenDiff |-> length(s) - length(ss[j])] :
        j \in {k \in 1..Len(ss) : ss[k].id # s.id /\ ss[k].alive}}

\* the body of the loop over snakeArray, for the snake at place i
updateSnake(R, i, jit) ==
    IF ~R.snakes[i].alive THEN R
    ELSE LET s0 == R.snakes[i]
             s1 == update(s0, WORLD_WIDTH, WORLD_HEIGHT)
             wasClamped == outOfWorld(moveHead(rotate(s0)), WORLD_WIDTH, WORLD_HEIGHT)
             R1 == [R EXCEPT !.snakes[i] = s1,
                             !.log.clamped = IF wasClamped THEN @ \cup {s0.id} ELSE @]
             collisionResult == checkSnakeCollision(s1, R1.snakes)
             R2 == [R1 EXCEPT !.log.passes =
                       Append(@, [id |-> s0.id, result |-> collisionResult,
                                  saw |-> Observe(s1, R1.snakes)])]
             R3 == applyCollision(R2, collisionResult, jit)
         IN eatAll(R3, i, checkFoodCollision(R3.snakes[i], R3.food))

RECURSIVE updateFrom(_, _, _)
updateFrom(R, i, jit) ==
    IF i > Len(R.snakes) THEN R
    ELSE updateFrom(updateSnake(R, i, jit), i + 1, jit)

(***************************************************************************)
(* The bots of the Room.  Bot ids (bot_ and 8 characters of a uuid) come   *)
(* from a pool; a removed bot's pending timeouts, which find no bot or no  *)
(* registered bot object when they fire, are dropped with it.              *)
(***************************************************************************)
MIN_BOTS == 2
MAX_BOTS == 8
INITIAL_BOTS == 5

BotId(n) == "bot_" \o ToString(n)

BotIds == {BotId(n) : n \in 1..MaxBotIds}

BotIdsOf(bs) == {bs[k].id : k \in 1..Len(bs)}

\* the pool number of a fresh bot id
FreshBot(bs) == CHOOSE n \in 1..MaxBotIds :
                   /\ BotId(n) \notin BotIdsOf(bs)
                   /\ \A m \in 1..(n - 1) : BotId(m) \in BotIdsOf(bs)

NoTimers == [respawn |-> [id \in BotIds |-> 0], boostOff |-> [id \in BotIds |-> 0]]

\* the snake Room.spawnBots and Room.respawnBot create for a bot
BotSnake(id, spot, angle) ==
    [NewSnake(id, spot.x, spot.y, angle) EXCEPT !.value = 0, !.isBot = TRUE]

\* a respawn that leaves the room as it is
respawnNever(R, botId, spot, angle) == R

\* a respawn that gives every dead snake of the room a new snake
respawnDead(R, botId, spot, angle) ==
    [R EXCEPT !.snakes =
        [k \in 1..Len(R.snakes) |->
            IF R.snakes[k].alive THEN R.snakes[k]
            ELSE [NewSnake(R.snakes[k].id, spot.x, spot.y, angle) EXCEPT
                     !.value = 0, !.isBot = R.snakes[k].isBot]]]

\* Room.respawnBot
respawnBot(R, botId, spot, angle) ==
    IF botId \notin BotIdsOf(R.bots) THEN R
    ELSE [R EXCEPT !.snakes = Append(DeleteSnake(@, botId),
                                     BotSnake(botId, spot, angle))]

RECURSIVE spawnBots(_, _, _)
\* Room.spawnBots(count); draw holds the random draws of the call
spawnBots(R, count, draw) ==
    IF count <= 0 THEN R
    ELSE LET n == FreshBot(R.bots)
             spot == draw.spots[n]
             bot == NewBot(BotId(n), draw.botAngle, draw.thinkTimer,
                           draw.aggressiveness, draw.foodPreference)
         IN spawnBots([R EXCEPT !.snakes = SetSnake(@, BotSnake(bot.id, spot, draw.angle)),
                                !.bots = Append(@, bot)],
                      count - 1, draw)

\* a removal that takes the first snakes of the room with the first bots
removeBotsFirst(R, count, jit) ==
    LET n == Min(count, Len(R.bots))
    IN [R EXCEPT !.snakes = SubSeq(@, Min(n, Len(@)) + 1, Len(@)),
                 !.bots = SubSeq(@, n + 1, Len(@))]

RECURSIVE removeBots(_, _, _)
\* Room.removeBots(count): the first count bots in insertion order
removeBots(R, count, jit) ==
    IF count <= 0 \/ R.bots = <<>> THEN R
    ELSE LET botId == R.bots[1].id
             R1 == IF botId \in SnakeIds(R.snakes)
                      /\ R.snakes[IndexOf(R.snakes, botId)].alive
                   THEN dropFood(R, R.snakes[IndexOf(R.snakes, botId)], jit)
                   ELSE R
         IN removeBots([R1 EXCEPT !.snakes = DeleteSnake(@, botId),
                                  !.bots = Tail(@),
                                  !.timers.respawn[botId] = 0,
                                  !.timers.boostOff[botId] = 0],
                       count - 1, jit)

\* an adjustment whose target with humans in the room has no floor
adjustNoFloor(R, draw, jit) ==
    LET realPlayers == Cardinality(DOMAIN R.players)
        botCount == Len(R.bots)
    IN IF realPlayers = 0
       THEN (IF INITIAL_BOTS - botCount > 0
             THEN spawnBots(R, INITIAL_BOTS - botCount, draw)
             ELSE R)
       ELSE LET targetBots == MAX_BOTS - realPlayers
            IN IF botCount < targetBots THEN spawnBots(R, targetBots - botCount, draw)
               ELSE IF botCount > targetBots
               THEN removeBots(R, botCount - targetBots, jit)
               ELSE R

\* Room.adjustBotCount
adjustBotCount(R, draw, jit) ==
    LET realPlayers == Cardinality(DOMAIN R.players)
        botCount == Len(R.bots)
    IN IF realPlayers = 0
       THEN (IF INITIAL_BOTS - botCount > 0
             THEN spawnBots(R, INITIAL_BOTS - botCount, draw)
             ELSE R)
       ELSE LET targetBots == Max(MIN_BOTS, MAX_BOTS - realPlayers)
            IN IF botCount < targetBots THEN spawnBots(R, targetBots - botCount, draw)
               ELSE IF botCount > targetBots
               THEN removeBots(R, botCount - targetBots, jit)
               ELSE R

RECURSIVE botsFrom(_, _, _)
\* Room.update: the loop over the bots, from the bot at place k
botsFrom(R, k, rnd) ==
    IF k > Len(R.bots) THEN R
    ELSE LET bot == R.bots[k]
         IN IF bot.id \notin SnakeIds(R.snakes) THEN botsFrom(R, k + 1, rnd)
            ELSE LET i == IndexOf(R.snakes, bot.id)
                 IN IF ~R.snakes[i].alive
                    THEN botsFrom([R EXCEPT !.timers.respawn[bot.id] = @ + 1],
                                  k + 1, rnd)
                    ELSE LET t == think(bot, R.snakes, R.food,
                                        WORLD_WIDTH, WORLD_HEIGHT, rnd)
                         IN botsFrom(
                               [R EXCEPT
                                   !.bots[k] = t.bot,
                                   !.timers.boostOff[bot.id] =
                                       IF t.timer THEN @ + 1 ELSE @,
                                   !.snakes[i] =
                                       setBoost([@ EXCEPT !.targetAngle =
                                                              t.bot.targetAngle],
                                                t.bot.boosting),
                                   !.log.thinks =
                                       Append(@, [id |-> bot.id,
                                                  x |-> R.snakes[i].x,
                                                  y |-> R.snakes[i].y,
                                                  ran |-> bot.thinkTimer + 1
                                                            >= BOT_THINK_INTERVAL,
                                                  targetAngle |-> t.bot.targetAngle])],
                               k + 1, rnd)

(***************************************************************************)
(* The random draws, from small sets.                                      *)
(***************************************************************************)
\* scatter of a food burst: (Math.random() - 0.5) * 20 lies in [-10, 10)
Jitters == {0, 900}

\* positions of spawned food; the first lies at p1's neck
FoodSpots ==
    <<randomSpot(499, 500, WORLD_WIDTH, WORLD_HEIGHT),
      randomSpot(0, 999, WORLD_WIDTH, WORLD_HEIGHT)>>

FoodSpotSet == {FoodSpots[k] : k \in 1..Len(FoodSpots)}

\* spawn positions of snakes: margin 200
SpawnSpots == {Pt(20000, 20000), Pt(202000, 200000)}

\* the constructor's Math.random() * Math.PI * 2
SpawnAngles == {0, PI}

\* aim points of the input command
AimPoints == {Pt(200000, 0), Pt(0, 200000)}

\* the draws of a bot's think: the turn of the default rule,
\* (Math.random() - 0.5) * 0.3, and whether Math.random() < BOT_BOOST_CHANCE
BotRnds == {[wander |-> -150, lucky |-> TRUE], [wander |-> 149, lucky |-> FALSE]}

NoRnd == [wander |-> 0, lucky |-> FALSE]

\* the draws of a call of spawnBots, one set of draws for all its bots: the
\* bots spawn far apart, or the second and the third of the pool spawn 10
\* apart, on each other's necks
BotDraws ==
    { [spots |-> [n \in 1..MaxBotIds |-> Pt(20000 + 40000 * (n - 1), 100000)],
       angle |-> 0, botAngle |-> 0, thinkTimer |-> 9,
       aggressiveness |-> 800, foodPreference |-> 1000],
      [spots |-> [n \in 1..MaxBotIds |->
                     IF n <= 3 THEN Pt(100000 + 1000 * n, 300000)
                     ELSE Pt(20000 + 40000 * (n - 1), 300000)],
       angle |-> 0, botAngle |-> PI, thinkTimer |-> 0,
       aggressiveness |-> 0, foodPreference |-> 500] }

\* the draws of respawnBot: the spot, margin 200, and the new snake's angle
RespawnDraws ==
    { [spot |-> Pt(20000, 20000), angle |-> 0],
      [spot |-> Pt(300000, 300000), angle |-> PI] }

(***************************************************************************)
(* Initial states: a room in play.  Each player's snake lies straight      *)
(* behind its head, as after a run of ticks without turning.               *)
(***************************************************************************)
Placed(id, pl, value) ==
    [NewSnake(id, pl.x, pl.y, pl.angle) EXCEPT
        !.segments = initializeSegments(pl.x, pl.y, pl.angle, pl.len),
        !.boosting = pl.boosting,
        !.value = value,
        !.maxLength = Max(INITIAL_LENGTH, pl.len)]

Place(x, y, angle, len, boosting) ==
    [x |-> x, y |-> y, angle |-> angle, len |-> len, boosting |-> boosting]

\* where p1 is: mid-world, heading east, 10 or 13 segments long
Places1 ==
    { Place(200000, 200000, 0, 10, FALSE),
      Place(200000, 200000, 0, 13, FALSE) }

\* where p2 is: heading west toward p1's head; heading south toward p1's body;
\* heading north beside p1's neck; heading west at the west wall
Places2 ==
    { Place(203000, 200000, PI, 10, FALSE),
      Place(197000, 197000, HALF_PI, 10, FALSE),
      Place(200790, 202890, -HALF_PI, 10, FALSE),
      Place(1800, 200000, PI, 10, FALSE) }

PlayerData(demoMode) ==
    [demoMode |-> demoMode, buyIn |-> IF demoMode THEN 0 ELSE tier.buy_in,
     earnings |-> 0, kills |-> 0, deaths |-> 0, joinedAt |-> now]

Init ==
    /\ tier \in Tiers
    /\ now = 0
    /\ \E pl1 \in Places1, pl2 \in Places2, first \in Ids :
          LET s1 == Placed("p1", pl1, tier.buy_in)
              s2 == Placed("p2", pl2, tier.buy_in)
          IN snakes = IF first = "p1" THEN <<s1, s2>> ELSE <<s2, s1>>
    /\ players = [id \in Ids |-> PlayerData(FALSE)]
    /\ food = replenish(<<>>, 1, [k \in 1..TargetFoodCount |->
                                     FoodSpots[((k - 1) % Len(FoodSpots)) + 1]])
    /\ nextFoodId = TargetFoodCount + 1
    /\ totalKills = 0
    /\ kills = <<>>
    /\ ticks = 0
    /\ cmds = 0
    /\ log = EmptyLog
    /\ bots = <<>>
    /\ timers = NoTimers
    /\ manager = NoManager

(***************************************************************************)
(* Room.update: one tick.                                                  *)
(***************************************************************************)
Tick ==
    /\ ticks < MaxTicks
    /\ Len(snakes) <= MaxSnakes
    /\ \E jit \in Jitters, rnd \in (IF bots = <<>> THEN {NoRnd} ELSE BotRnds) :
          \E R \in {updateFrom(botsFrom(RoomNow, 1, rnd), 1, jit)} :
          LET need == Max(0, TargetFoodCount - Cardinality(DOMAIN R.food))
          IN \E spots \in [1..need -> FoodSpotSet] :
                /\ snakes' = R.snakes
                /\ players' = R.players
                /\ food' = replenish(R.food, R.nextFoodId, spots)
                /\ nextFoodId' = R.nextFoodId + need
                /\ totalKills' = R.totalKills
                /\ kills' = R.kills
                /\ log' = [R.log EXCEPT !.foodBefore = Cardinality(DOMAIN R.food)]
                /\ bots' = R.bots
                /\ timers' = R.timers
    /\ ticks' = ticks + 1
    /\ UNCHANGED <<tier, cmds, manager, now>>

(***************************************************************************)
(* The player commands, as the Room handles them.                          *)
(***************************************************************************)
Command ==
    /\ cmds < MaxCmds
    /\ cmds' = cmds + 1
    /\ UNCHANGED <<tier, ticks, kills, manager, now>>

\* Room.addPlayer
AddPlayer(socketId, demoMode, spot, angle) ==
    /\ Command
    /\ snakes' = SetSnake(snakes,
                     [NewSnake(socketId, spot.x, spot.y, angle) EXCEPT
                         !.value = IF demoMode THEN 0 ELSE tier.buy_in])
    /\ players' = (socketId :> PlayerData(demoMode)) @@ players
    /\ log' = [Did("addPlayer", socketId) EXCEPT
                  !.credits = SelectSeq(@, LAMBDA c : c.to # socketId)]
    /\ UNCHANGED <<food, nextFoodId, totalKills, bots, timers>>

\* a removal that drops the snake's food whether the snake is alive or not
RemovePlayerDropping(socketId, jit) ==
    /\ Command
    /\ LET R == IF socketId \in SnakeIds(snakes)
                THEN dropFood(RoomNow, snakes[IndexOf(snakes, socketId)], jit)
                ELSE RoomNow
       IN /\ food' = R.food
          /\ nextFoodId' = R.nextFoodId
    /\ snakes' = DeleteSnake(snakes, socketId)
    /\ players' = [id \in (DOMAIN players) \ {socketId} |-> players[id]]
    /\ log' = [Did("removePlayer", socketId) EXCEPT
                  !.out = IF socketId \in DOMAIN players
                          THEN <<players[socketId]>> ELSE <<>>]
    /\ UNCHANGED <<totalKills, bots, timers>>

\* Room.removePlayer; what it returns is the metadata or undefined
RemovePlayer(socketId, jit) ==
    /\ Command
    /\ LET R == IF socketId \in SnakeIds(snakes)
                   /\ snakes[IndexOf(snakes, socketId)].alive
                THEN dropFood(RoomNow, snakes[IndexOf(snakes, socketId)], jit)
                ELSE RoomNow
       IN /\ food' = R.food
          /\ nextFoodId' = R.nextFoodId
    /\ snakes' = DeleteSnake(snakes, socketId)
    /\ players' = [id \in (DOMAIN players) \ {socketId} |-> players[id]]
    /\ log' = [Did("removePlayer", socketId) EXCEPT
                  !.out = IF socketId \in DOMAIN players
                          THEN <<players[socketId]>> ELSE <<>>]
    /\ UNCHANGED <<totalKills, bots, timers>>

\* an input handler that does not look at the snake's alive flag
HandleInputAny(socketId, data) ==
    /\ Command
    /\ snakes' = IF socketId \in SnakeIds(snakes)
                 THEN [snakes EXCEPT ![IndexOf(snakes, socketId)] =
                                         setTarget(@, data.x, data.y)]
                 ELSE snakes
    /\ log' = Did("handleInput", socketId)
    /\ UNCHANGED <<players, food, nextFoodId, totalKills, bots, timers>>

\* Room.handleInput
HandleInput(socketId, data) ==
    /\ Command
    /\ snakes' = IF socketId \in SnakeIds(snakes)
                    /\ snakes[IndexOf(snakes, socketId)].alive
                 THEN [snakes EXCEPT ![IndexOf(snakes, socketId)] =
                                         setTarget(@, data.x, data.y)]
                 ELSE snakes
    /\ log' = Did("handleInput", socketId)
    /\ UNCHANGED <<players, food, nextFoodId, totalKills, bots, timers>>

\* Room.handleBoost
HandleBoost(socketId, active) ==
    /\ Command
    /\ snakes' = IF socketId \in SnakeIds(snakes)
                    /\ snakes[IndexOf(snakes, socketId)].alive
                 THEN [snakes EXCEPT ![IndexOf(snakes, socketId)] =
                                         setBoost(@, active)]
                 ELSE snakes
    /\ log' = Did("handleBoost", socketId)
    /\ UNCHANGED <<players, food, nextFoodId, totalKills, bots, timers>>

\* a respawn that seeds the new snake with the buy-in, demo mode or not
RespawnPlayerPaid(socketId, spot, angle) ==
    /\ Command
    /\ snakes' = IF socketId \in DOMAIN players
                 THEN Append(DeleteSnake(snakes, socketId),
                             [NewSnake(socketId, spot.x, spot.y, angle) EXCEPT
                                 !.value = tier.buy_in])
                 ELSE snakes
    /\ log' = [Did("respawnPlayer", socketId) EXCEPT
                  !.out = IF socketId \in DOMAIN players
                          THEN <<[snake |-> socketId]>> ELSE <<>>]
    /\ UNCHANGED <<players, food, nextFoodId, totalKills, bots, timers>>

\* Room.respawnPlayer
RespawnPlayer(socketId, spot, angle) ==
    /\ Command
    /\ snakes' = IF socketId \in DOMAIN players
                 THEN Append(DeleteSnake(snakes, socketId),
                             [NewSnake(socketId, spot.x, spot.y, angle) EXCEPT
                                 !.value = IF players[socketId].demoMode
                                           THEN 0 ELSE tier.buy_in])
                 ELSE snakes
    /\ log' = [Did("respawnPlayer", socketId) EXCEPT
                  !.out = IF socketId \in DOMAIN players
                          THEN <<[snake |-> socketId]>> ELSE <<>>]
    /\ UNCHANGED <<players, food, nextFoodId, totalKills, bots, timers>>

Next ==
    \/ Tick
    \/ \E id \in Ids, demoMode \in BOOLEAN, spot \in SpawnSpots, angle \in SpawnAngles :
          AddPlayer(id, demoMode, spot, angle)
    \/ \E id \in Ids, jit \in Jitters : RemovePlayer(id, jit)
    \/ \E id \in Ids, data \in AimPoints : HandleInput(id, data)
    \/ \E id \in Ids, active \in BOOLEAN : HandleBoost(id, active)
    \/ \E id \in Ids, spot \in SpawnSpots, angle \in SpawnAngles :
          RespawnPlayer(id, spot, angle)

Spec == Init /\ [][Next]_vars

(***************************************************************************)
(* The room with its accounts: one of the two players may have joined in   *)
(* demo mode, a connection that never joined sends commands too, and a     *)
(* player can cash out.  Every player of the room is routed to it, and the *)
(* connection that never joined has no routing entry.                      *)
(***************************************************************************)
Sockets == Ids \cup {"p3"}

AccountInit ==
    /\ tier \in Tiers
    /\ now = 0
    /\ \E pl1 \in Places1, pl2 \in Places2, first \in Ids, demo \in BOOLEAN :
          LET s1 == Placed("p1", pl1, IF demo THEN 0 ELSE tier.buy_in)
              s2 == Placed("p2", pl2, tier.buy_in)
          IN /\ snakes = IF first = "p1" THEN <<s1, s2>> ELSE <<s2, s1>>
             /\ players = [id \in Ids |-> PlayerData(id = "p1" /\ demo)]
    /\ food = replenish(<<>>, 1, [k \in 1..TargetFoodCount |->
                                     FoodSpots[((k - 1) % Len(FoodSpots)) + 1]])
    /\ nextFoodId = TargetFoodCount + 1
    /\ totalKills = 0
    /\ kills = <<>>
    /\ ticks = 0
    /\ cmds = 0
    /\ log = EmptyLog
    /\ bots = <<>>
    /\ timers = NoTimers
    /\ manager = NoManager

\* what RoomManager.cashoutPlayer returns
CashoutResult(success, earnings, player) ==
    [success |-> success, earnings |-> earnings,
     kills |-> player.kills, deaths |-> player.deaths,
     playTime |-> now - player.joinedAt]

\* a player without a room, for a refused cashout's result
NoPlayer == [kills |-> 0, deaths |-> 0, joinedAt |-> now]

\* snake?.value || 0
valueOrZero(ss, socketId) ==
    IF socketId \in SnakeIds(ss) THEN ss[IndexOf(ss, socketId)].value ELSE 0

\* RoomManager.cashoutPlayer, with the Room.removePlayer it calls
CashoutPlayer(socketId, jit) ==
    /\ Command
    /\ IF socketId \in DOMAIN players
       THEN /\ LET R == IF socketId \in SnakeIds(snakes)
                           /\ snakes[IndexOf(snakes, socketId)].alive
                        THEN dropFood(RoomNow, snakes[IndexOf(snakes, socketId)], jit)
                        ELSE RoomNow
               IN /\ food' = R.food
                  /\ nextFoodId' = R.nextFoodId
            /\ snakes' = DeleteSnake(snakes, socketId)
            /\ players' = [id \in (DOMAIN players) \ {socketId} |-> players[id]]
            /\ log' = [Did("cashoutPlayer", socketId) EXCEPT
                          !.out = <<CashoutResult(TRUE,
                                       players[socketId].earnings
                                          + valueOrZero(snakes, socketId),
                                       players[socketId])>>]
       ELSE /\ log' = [Did("cashoutPlayer", socketId) EXCEPT
                          !.out = <<CashoutResult(FALSE, 0, NoPlayer)>>]
            /\ UNCHANGED <<snakes, players, food, nextFoodId>>
    /\ UNCHANGED <<totalKills, bots, timers>>

\* the view radii asked for: 30, and the default 1000
ViewRadii == {3000, 100000}

\* history: what a state object holds, the snakes by id and the food by id
StateOf(ss, foodIds) ==
    [snakes |-> [k \in 1..Len(ss) |-> ss[k].id], food |-> foodIds]

\* Room.getState
getState(R) ==
    StateOf(SelectSeq(R.snakes, LAMBDA s : s.alive), DOMAIN R.food)

\* a view that is not culled
getVisibleStateAll(R, socketId, viewRadius) == getState(R)

\* Room.getVisibleState
getVisibleState(R, socketId, viewRadius) ==
    IF socketId \notin SnakeIds(R.snakes) THEN getState(R)
    ELSE LET playerSnake == R.snakes[IndexOf(R.snakes, socketId)]
             px == playerSnake.x
             py == playerSnake.y
         IN StateOf(SelectSeq(R.snakes,
                              LAMBDA s : /\ s.alive
                                         /\ WideLess(s.x - px, s.y - py, 3, 2,
                                                     viewRadius)),
                    getNearby(R.food, px, py, viewRadius))

\* a call of Room.getVisibleState, as RoomManager.tick makes it for a socket
GetVisibleState(socketId, viewRadius) ==
    /\ Command
    /\ log' = [Did("getVisibleState", socketId) EXCEPT
                  !.out = <<[view |-> getVisibleState(RoomNow, socketId, viewRadius),
                             viewRadius |-> viewRadius]>>]
    /\ UNCHANGED <<snakes, players, food, nextFoodId, totalKills, bots, timers>>

AccountNext ==
    \/ Tick
    \/ \E id \in Ids, demoMode \in BOOLEAN, spot \in SpawnSpots, angle \in SpawnAngles :
          AddPlayer(id, demoMode, spot, angle)
    \/ \E id \in Ids, jit \in Jitters : RemovePlayer(id, jit)
    \/ \E id \in Sockets, data \in AimPoints : HandleInput(id, data)
    \/ \E id \in Sockets, active \in BOOLEAN : HandleBoost(id, active)
    \/ \E id \in Sockets, spot \in SpawnSpots, angle \in SpawnAngles :
          RespawnPlayer(id, spot, angle)
    \/ \E id \in Sockets, jit \in Jitters : CashoutPlayer(id, jit)
    \/ \E id \in Sockets, viewRadius \in ViewRadii : GetVisibleState(id, viewRadius)

AccountSpec == AccountInit /\ [][AccountNext]_vars

(***************************************************************************)
(* The Snake alone: its methods called directly on a freshly constructed   *)
(* snake, in any order.                                                    *)
(***************************************************************************)
\* where a snake in play is: about to cross the west wall heading west; in
\* the south-east corner heading south-east, boosting
EntityPlaces ==
    { Place(1400, 200000, PI, 10, FALSE),
      Place(398600, 398600, 785, 13, TRUE) }

\* a snake in play that has turned through west past PI and is within one
\* step of its target, which atan2 gave just above -PI
Turning ==
    [Placed("p1", Place(200000, 200000, 3200, 10, FALSE), 0) EXCEPT
        !.targetAngle = -3050]

EntityInit ==
    /\ tier \in {t \in Tiers : t.buy_in = 0}
    /\ now = 0
    /\ \/ \E spot \in SpawnSpots, angle \in SpawnAngles :
             snakes = <<NewSnake("p1", spot.x, spot.y, angle)>>
       \/ \E pl \in EntityPlaces : snakes = <<Placed("p1", pl, 0)>>
       \/ snakes = <<Turning>>
    /\ players = [id \in {"p1"} |-> PlayerData(FALSE)]
    /\ food = <<>>
    /\ nextFoodId = 1
    /\ totalKills = 0
    /\ kills = <<>>
    /\ ticks = 0
    /\ cmds = 0
    /\ log = EmptyLog
    /\ bots = <<>>
    /\ timers = NoTimers
    /\ manager = NoManager

Call ==
    /\ cmds < MaxCalls
    /\ cmds' = cmds + 1
    /\ UNCHANGED <<tier, players, food, nextFoodId, totalKills, kills, ticks,
                   bots, timers, manager, now>>

\* history: the run of calls of one kind that a call continues or starts;
\* from is the length of the snake when the run started
RunOf(kind) ==
    IF log.run.kind = kind THEN [log.run EXCEPT !.n = @ + 1]
    ELSE [kind |-> kind, n |-> 1, from |-> length(snakes[1])]

SnakeSetTarget(data) ==
    /\ Call
    /\ snakes' = [snakes EXCEPT ![1] = setTarget(@, data.x, data.y)]
    /\ log' = Did("setTarget", None)

SnakeSetBoost(active) ==
    /\ Call
    /\ snakes' = [snakes EXCEPT ![1] = setBoost(@, active)]
    /\ log' = Did("setBoost", None)

\* a run of updates is a run of ticks with the boost flag set
SnakeUpdate ==
    /\ Call
    /\ snakes' = [snakes EXCEPT ![1] = update(@, WORLD_WIDTH, WORLD_HEIGHT)]
    /\ log' = [Did("update", None) EXCEPT
                  !.run = IF snakes[1].boosting THEN RunOf("boost") ELSE NoRun]

\* a run of grows is a run of eaten items of value 1
SnakeGrow(amount) ==
    /\ Call
    /\ snakes' = [snakes EXCEPT ![1] = grow(@, amount)]
    /\ log' = [Did("grow", None) EXCEPT
                  !.run = IF amount = 1 THEN RunOf("eat") ELSE NoRun]

SnakeShrink(amount) ==
    /\ Call
    /\ snakes' = [snakes EXCEPT ![1] = shrink(@, amount)]
    /\ log' = Did("shrink", None)

EntityNext ==
    \/ \E data \in AimPoints : SnakeSetTarget(data)
    \/ \E active \in BOOLEAN : SnakeSetBoost(active)
    \/ SnakeUpdate
    \/ \E amount \in 1..2 : SnakeGrow(amount)
    \/ \E amount \in 1..4 : SnakeShrink(amount)

EntitySpec == EntityInit /\ [][EntityNext]_vars

(***************************************************************************)
(* The FoodManager alone: its methods called directly on a newly           *)
(* constructed manager, whose Map is empty, in any order.                  *)
(***************************************************************************)
\* the draws of Math.random() of a spawn, in 1/1000
FoodRandoms == {0, 499, 999}

FoodSpecSpots ==
    {randomSpot(rx, ry, WORLD_WIDTH, WORLD_HEIGHT) : rx, ry \in FoodRandoms}

\* food arrays handed to addSnakeFood: what a dead snake left
Bursts ==
    { <<[x |-> 0, y |-> 100, value |-> 2]>>,
      <<[x |-> 399000, y |-> 1000, value |-> 1], [x |-> 399500, y |-> 1000, value |-> 1]>> }

FoodInit ==
    /\ tier \in {t \in Tiers : t.buy_in = 0}
    /\ snakes = <<>>
    /\ players = <<>>
    /\ food = <<>>
    /\ nextFoodId = 1
    /\ totalKills = 0
    /\ kills = <<>>
    /\ ticks = 0
    /\ cmds = 0
    /\ log = EmptyLog
    /\ bots = <<>>
    /\ timers = NoTimers
    /\ manager = NoManager
    /\ now = 0

FoodCall ==
    /\ cmds' = cmds + 1
    /\ UNCHANGED <<tier, snakes, players, totalKills, kills, ticks,
                   bots, timers, manager, now>>

\* the spawn loop of initialize and update
FoodFill(op) ==
    /\ FoodCall
    /\ LET need == Max(0, TargetFoodCount - Cardinality(DOMAIN food))
       IN \E spots \in [1..need -> FoodSpecSpots] :
             /\ food' = replenish(food, nextFoodId, spots)
             /\ nextFoodId' = nextFoodId + need
    /\ log' = [Did(op, None) EXCEPT !.foodBefore = Cardinality(DOMAIN food)]

\* FoodManager.initialize
FoodInitialize ==
    /\ cmds < MaxFoodCalls
    /\ FoodFill("initialize")

\* FoodManager.update
FoodUpdate ==
    /\ cmds < MaxFoodCalls
    /\ FoodFill("update")

\* FoodManager.removeFood
FoodRemove(id) ==
    /\ cmds < MaxFoodCalls
    /\ FoodCall
    /\ food' = removeFood(food, id)
    /\ log' = Did("removeFood", None)
    /\ UNCHANGED nextFoodId

\* FoodManager.addSnakeFood
FoodAddSnakeFood(items) ==
    /\ cmds < MaxFoodCalls
    /\ FoodCall
    /\ food' = addSnakeFood(food, items, nextFoodId)
    /\ nextFoodId' = nextFoodId + Len(items)
    /\ log' = Did("addSnakeFood", None)

FoodNext ==
    \/ FoodInitialize
    \/ FoodUpdate
    \/ \E id \in DOMAIN food : FoodRemove(id)
    \/ \E items \in Bursts : FoodAddSnakeFood(items)

FoodSpec == FoodInit /\ [][FoodNext]_vars

(***************************************************************************)
(* The Room with bots: one human player and one registered bot in play,    *)
(* the Room's bot operations, and the deferred callbacks of setTimeout,    *)
(* which may run at any step after they were scheduled.                    *)
(***************************************************************************)
\* a bot in play: its think timer and its boost timer have run
BotInPlay(id, angle, thinkTimer, boostTimer, aggressiveness) ==
    [NewBot(id, angle, thinkTimer, aggressiveness, 750) EXCEPT
        !.boostTimer = boostTimer]

\* where p1 and the bot are.  wall: the bot is 50 from the west wall heading
\* west, about to think, its boost cooldown over.  crash: the bot heads south
\* into p1's body.  trap: p1 heads east into the bot's body.  fallen: the bot
\* died in the tick before, so that no tick has found it dead yet.
Scenes ==
    { [name |-> "wall",
       p1 |-> Place(200000, 200000, 0, 10, FALSE),
       bot |-> Place(5000, 100000, PI, 10, FALSE),
       thinkTimer |-> 9, boostTimer |-> 300, aggressiveness |-> 800],
      [name |-> "crash",
       p1 |-> Place(200000, 200000, 0, 10, FALSE),
       bot |-> Place(197000, 197200, HALF_PI, 10, FALSE),
       thinkTimer |-> 0, boostTimer |-> 0, aggressiveness |-> 0],
      [name |-> "trap",
       p1 |-> Place(200000, 200000, 0, 10, FALSE),
       bot |-> Place(202800, 203000, HALF_PI, 10, FALSE),
       thinkTimer |-> 0, boostTimer |-> 0, aggressiveness |-> 0],
      [name |-> "fallen",
       p1 |-> Place(200000, 200000, 0, 10, FALSE),
       bot |-> Place(100000, 300000, 0, 10, FALSE),
       thinkTimer |-> 3, boostTimer |-> 0, aggressiveness |-> 0] }

\* the bot's snake of a scene
SceneSnake(sc) ==
    LET s == [Placed(BotId(1), sc.bot, 0) EXCEPT !.isBot = TRUE]
    IN IF sc.name = "fallen" THEN die(s) ELSE s

BotInit ==
    /\ tier \in {t \in Tiers : t.buy_in = 0}
    /\ now = 0
    /\ \E sc \in Scenes :
          /\ snakes = <<Placed("p1", sc.p1, tier.buy_in), SceneSnake(sc)>>
          /\ bots = <<BotInPlay(BotId(1), sc.bot.angle, sc.thinkTimer,
                                sc.boostTimer, sc.aggressiveness)>>
    /\ players = [id \in {"p1"} |-> PlayerData(FALSE)]
    /\ food = replenish(<<>>, 1, [k \in 1..TargetFoodCount |->
                                     FoodSpots[((k - 1) % Len(FoodSpots)) + 1]])
    /\ nextFoodId = TargetFoodCount + 1
    /\ totalKills = 0
    /\ kills = <<>>
    /\ ticks = 0
    /\ cmds = 0
    /\ log = EmptyLog
    /\ timers = NoTimers
    /\ manager = NoManager

\* a call of one of the Room's bot operations; the history keeps the number
\* of bots before the call
BotCommand(R, op, arg) ==
    /\ cmds' = cmds + 1
    /\ snakes' = R.snakes
    /\ food' = R.food
    /\ nextFoodId' = R.nextFoodId
    /\ bots' = R.bots
    /\ timers' = R.timers
    /\ log' = [Did(op, arg) EXCEPT !.out = <<Len(bots)>>]
    /\ UNCHANGED <<tier, players, totalKills, kills, ticks, manager, now>>

\* Room.spawnBots
SpawnBots(count, draw) ==
    /\ cmds < MaxBotCmds
    /\ Len(bots) + count <= MaxBotIds
    /\ BotCommand(spawnBots(RoomNow, count, draw), "spawnBots", None)

\* Room.removeBots
RemoveBots(count, jit) ==
    /\ cmds < MaxBotCmds
    /\ BotCommand(removeBots(RoomNow, count, jit), "removeBots", None)

\* Room.respawnBot
RespawnBot(botId, spot, angle) ==
    /\ cmds < MaxBotCmds
    /\ BotCommand(respawnBot(RoomNow, botId, spot, angle), "respawnBot", botId)

\* Room.adjustBotCount
AdjustBotCount(draw, jit) ==
    /\ cmds < MaxBotCmds
    /\ BotCommand(adjustBotCount(RoomNow, draw, jit), "adjustBotCount", None)

\* the callback Room.update deferred for a dead bot: () => this.respawnBot(botId)
RespawnTimer(botId, spot, angle) ==
    /\ timers.respawn[botId] > 0
    /\ snakes' = respawnBot(RoomNow, botId, spot, angle).snakes
    /\ timers' = [timers EXCEPT !.respawn[botId] = @ - 1]
    /\ log' = [Did("respawnTimer", botId) EXCEPT
                  !.revived = /\ botId \in BotIdsOf(bots)
                              /\ botId \in SnakeIds(snakes)
                              /\ ~snakes[IndexOf(snakes, botId)].alive]
    /\ UNCHANGED <<tier, players, food, nextFoodId, totalKills, kills, ticks,
                   cmds, bots, manager, now>>

\* the callback BotPlayer.think deferred: () => { this.boosting = false; }
BoostOffTimer(botId) ==
    /\ timers.boostOff[botId] > 0
    /\ bots' = [k \in 1..Len(bots) |->
                   IF bots[k].id = botId THEN [bots[k] EXCEPT !.boosting = FALSE]
                   ELSE bots[k]]
    /\ timers' = [timers EXCEPT !.boostOff[botId] = @ - 1]
    /\ log' = Did("boostOffTimer", botId)
    /\ UNCHANGED <<tier, snakes, players, food, nextFoodId, totalKills, kills,
                   ticks, cmds, manager, now>>

BotNext ==
    \/ Tick
    \/ \E id \in Ids, demoMode \in BOOLEAN, spot \in SpawnSpots, angle \in SpawnAngles :
          AddPlayer(id, demoMode, spot, angle)
    \/ \E id \in Ids, jit \in Jitters : RemovePlayer(id, jit)
    \/ \E id \in Ids, data \in AimPoints : HandleInput(id, data)
    \/ \E id \in Ids, active \in BOOLEAN : HandleBoost(id, active)
    \/ \E id \in Ids, spot \in SpawnSpots, angle \in SpawnAngles :
          RespawnPlayer(id, spot, angle)
    \/ \E count \in 1..2, draw \in BotDraws : SpawnBots(count, draw)
    \/ \E count \in 1..2, jit \in Jitters : RemoveBots(count, jit)
    \/ \E botId \in BotIdsOf(bots) \cup {BotId(MaxBotIds)}, draw \in RespawnDraws :
          RespawnBot(botId, draw.spot, draw.angle)
    \/ \E draw \in BotDraws, jit \in Jitters : AdjustBotCount(draw, jit)
    \/ \E botId \in BotIds, draw \in RespawnDraws :
          RespawnTimer(botId, draw.spot, draw.angle)
    \/ \E botId \in BotIds : BoostOffTimer(botId)

BotSpec == BotInit /\ [][BotNext]_vars

\* the room left to itself: ticks, the deferred callbacks, and bots coming
\* and going
BotLiveNext ==
    \/ Tick
    \/ \E count \in 1..2, draw \in BotDraws : SpawnBots(count, draw)
    \/ \E count \in 1..2, jit \in Jitters : RemoveBots(count, jit)
    \/ \E botId \in BotIds, draw \in RespawnDraws :
          RespawnTimer(botId, draw.spot, draw.angle)
    \/ \E botId \in BotIds : BoostOffTimer(botId)

\* a callback that was deferred runs
BotFair ==
    \A botId \in BotIds :
        WF_vars(\E draw \in RespawnDraws :
                   RespawnTimer(botId, draw.spot, draw.angle))

BotLiveSpec == BotInit /\ [][BotLiveNext]_vars /\ BotFair

(***************************************************************************)
(* BotPlayer.think called directly: one bot, its snake (alive, dead or     *)
(* missing), the snake of human p1 and one food item, as a room in play    *)
(* has them when a tick reaches the bot; think is called again and again   *)
(* on the same surroundings, and the timeouts it set run.                  *)
(***************************************************************************)
\* the most calls of think
MaxThinks == 3

\* the think timer when the first call comes
ThinkTimers == {7, 8, 9}

\* where the bot, p1 and the food are.  west, east: the bot is 50 from that
\* wall; in east a boost that an earlier evaluation engaged 50 further from
\* the wall has not expired.  threat: a longer p1 comes head on, food lies
\* near.  shortHead: a shorter p1 comes head on.  shortNeck: a shorter p1
\* heads away, its head out of the danger radius and its segments within.
\* meal: food lies near.  prey: an aggressive bot with a much shorter p1 in
\* reach.  wander: nothing near, the boost cooldown over.  dead, missing:
\* the bot's snake is dead, or is not in the room.
ThinkScenes ==
    { [name |-> "west", state |-> "alive",
       bot |-> Place(5000, 100000, PI, 10, FALSE),
       p1 |-> Place(200000, 200000, 0, 10, FALSE), food |-> Pt(300000, 300000),
       boostTimer |-> 300, aggressiveness |-> 0],
      [name |-> "east", state |-> "alive",
       bot |-> Place(395000, 100000, 0, 10, TRUE),
       p1 |-> Place(200000, 200000, 0, 10, FALSE), food |-> Pt(300000, 300000),
       boostTimer |-> 1, aggressiveness |-> 0],
      [name |-> "threat", state |-> "alive",
       bot |-> Place(200000, 200000, 0, 10, FALSE),
       p1 |-> Place(205000, 200000, PI, 13, FALSE), food |-> Pt(201000, 201000),
       boostTimer |-> 0, aggressiveness |-> 0],
      [name |-> "shortHead", state |-> "alive",
       bot |-> Place(200000, 200000, 0, 10, FALSE),
       p1 |-> Place(210000, 200000, PI, 7, FALSE), food |-> Pt(300000, 300000),
       boostTimer |-> 0, aggressiveness |-> 0],
      [name |-> "shortNeck", state |-> "alive",
       bot |-> Place(200000, 200000, 0, 10, FALSE),
       p1 |-> Place(216000, 200000, 0, 7, FALSE), food |-> Pt(300000, 300000),
       boostTimer |-> 0, aggressiveness |-> 0],
      [name |-> "meal", state |-> "alive",
       bot |-> Place(200000, 200000, 0, 10, FALSE),
       p1 |-> Place(100000, 300000, 0, 7, FALSE), food |-> Pt(201000, 201000),
       boostTimer |-> 0, aggressiveness |-> 0],
      [name |-> "prey", state |-> "alive",
       bot |-> Place(200000, 200000, 0, 10, FALSE),
       p1 |-> Place(200000, 230000, 0, 6, FALSE), food |-> Pt(300000, 300000),
       boostTimer |-> 0, aggressiveness |-> 800],
      [name |-> "wander", state |-> "alive",
       bot |-> Place(200000, 200000, 0, 10, FALSE),
       p1 |-> Place(100000, 300000, 0, 10, FALSE), food |-> Pt(300000, 300000),
       boostTimer |-> 300, aggressiveness |-> 0],
      [name |-> "dead", state |-> "dead",
       bot |-> Place(200000, 200000, 0, 10, FALSE),
       p1 |-> Place(205000, 200000, PI, 13, FALSE), food |-> Pt(201000, 201000),
       boostTimer |-> 0, aggressiveness |-> 0],
      [name |-> "missing", state |-> "missing",
       bot |-> Place(200000, 200000, 0, 10, FALSE),
       p1 |-> Place(205000, 200000, PI, 13, FALSE), food |-> Pt(201000, 201000),
       boostTimer |-> 0, aggressiveness |-> 0] }

ThinkInit ==
    /\ tier \in {t \in Tiers : t.buy_in = 0}
    /\ now = 0
    /\ \E sc \in ThinkScenes, thinkTimer \in ThinkTimers :
          LET s == [Placed(BotId(1), sc.bot, 0) EXCEPT !.isBot = TRUE]
          IN /\ snakes = (IF sc.state = "missing" THEN <<>>
                          ELSE IF sc.state = "dead" THEN <<die(s)>>
                          ELSE <<s>>)
                         \o <<Placed("p1", sc.p1, tier.buy_in)>>
             /\ bots = <<[BotInPlay(BotId(1), sc.bot.angle, thinkTimer,
                                    sc.boostTimer, sc.aggressiveness) EXCEPT
                             !.boosting = sc.bot.boosting]>>
             /\ food = (1 :> FoodItem(sc.food.x, sc.food.y, 1))
             /\ timers = [NoTimers EXCEPT !.boostOff[BotId(1)] =
                                             IF sc.bot.boosting THEN 1 ELSE 0]
    /\ players = [id \in {"p1"} |-> PlayerData(FALSE)]
    /\ nextFoodId = 2
    /\ totalKills = 0
    /\ kills = <<>>
    /\ ticks = 0
    /\ cmds = 0
    /\ log = EmptyLog
    /\ manager = NoManager

\* bot.think(this.snakes, this.food, worldWidth, worldHeight); the history
\* keeps the bot as it was before the call
BotThink(botId, rnd) ==
    /\ cmds < MaxThinks
    /\ \E k \in {j \in 1..Len(bots) : bots[j].id = botId} :
          \E t \in {think(bots[k], snakes, food, WORLD_WIDTH, WORLD_HEIGHT, rnd)} :
             /\ bots' = [bots EXCEPT ![k] = t.bot]
             /\ timers' = [timers EXCEPT !.boostOff[botId] =
                                            IF t.timer THEN @ + 1 ELSE @]
             /\ log' = [Did("think", botId) EXCEPT !.out = <<bots[k]>>]
    /\ cmds' = cmds + 1
    /\ UNCHANGED <<tier, snakes, players, food, nextFoodId, totalKills, kills,
                   ticks, manager, now>>

ThinkNext ==
    \/ \E botId \in BotIdsOf(bots), rnd \in BotRnds : BotThink(botId, rnd)
    \/ \E botId \in BotIds : BoostOffTimer(botId)

ThinkSpec == ThinkInit /\ [][ThinkNext]_vars

(***************************************************************************)
(* The Room's bot count: a room that some humans have joined and some bots *)
(* were spawned in, before any tick; humans come and go, and the bot       *)
(* operations are called.                                                  *)
(***************************************************************************)
\* the most humans in the room
MaxHumans == 7

\* the connections, in the order they join
HumanId(n) == "p" \o ToString(n)

HumanIds == {HumanId(n) : n \in 1..MaxHumans}

\* the room after new Room(), h calls of addPlayer and spawnBots(b)
Gathered(h, b, spot, angle, draw) ==
    spawnBots([snakes |-> [n \in 1..h |->
                             [NewSnake(HumanId(n), spot.x, spot.y, angle) EXCEPT
                                 !.value = tier.buy_in]],
               bots |-> <<>>],
              b, draw)

AdjustInit ==
    /\ tier \in {t \in Tiers : t.buy_in = 0}
    /\ now = 0
    /\ \E h \in 0..MaxHumans, b \in 0..MaxBotIds :
          \E spot \in {Pt(202000, 200000)}, angle \in {0}, draw \in BotDraws :
             /\ snakes = Gathered(h, b, spot, angle, draw).snakes
             /\ bots = Gathered(h, b, spot, angle, draw).bots
             /\ players = [id \in {HumanId(n) : n \in 1..h} |-> PlayerData(FALSE)]
    /\ food = replenish(<<>>, 1, [k \in 1..TargetFoodCount |->
                                     FoodSpots[((k - 1) % Len(FoodSpots)) + 1]])
    /\ nextFoodId = TargetFoodCount + 1
    /\ totalKills = 0
    /\ kills = <<>>
    /\ ticks = 0
    /\ cmds = 0
    /\ log = EmptyLog
    /\ timers = NoTimers
    /\ manager = NoManager

AdjustNext ==
    \/ \E id \in HumanIds, demoMode \in BOOLEAN, spot \in {Pt(20000, 20000)},
          angle \in {PI} : AddPlayer(id, demoMode, spot, angle)
    \/ \E id \in HumanIds, jit \in {0} : RemovePlayer(id, jit)
    \/ \E count \in 1..2, draw \in BotDraws : SpawnBots(count, draw)
    \/ \E count \in 1..2, jit \in Jitters : RemoveBots(count, jit)
    \/ \E draw \in BotDraws, jit \in Jitters : AdjustBotCount(draw, jit)

AdjustSpec == AdjustInit /\ [][AdjustNext]_vars

(***************************************************************************)
(* The RoomManager: rooms is the Map roomId -> Room as the sequence of its *)
(* values in insertion order, playerRooms the Map socketId -> roomId.  Of  *)
(* a Room the manager reads the tier, createdAt and playerCount, the size  *)
(* of Room.snakes; Room.update does not change that size.  emptySince and  *)
(* removed are history: when the room's last snake left, and the rooms the *)
(* last tick deleted.  Time is Date.now() in milliseconds.                 *)
(***************************************************************************)
TierIds == {1, 2}

\* this.tiers after initialize(): the default tiers Free and Micro
tiers == [id \in TierIds |-> [id |-> id, buy_in |-> IF id = 1 THEN 0 ELSE 1000]]

\* an unknown tier resolved to tier 2
resolveTierPaid(tierId) == IF tierId \in DOMAIN tiers THEN tiers[tierId] ELSE tiers[2]

\* joinRoom: this.tiers.get(tierId), or the free tier
resolveTier(tierId) ==
    IF tierId \in DOMAIN tiers THEN tiers[tierId]
    ELSE IF 1 \in DOMAIN tiers THEN tiers[1]
    ELSE [id |-> 1, buy_in |-> 0]

\* the clock steps explored: half a minute, and just over a minute
ClockSteps == {30000, 61000}

\* Room.playerCount
playerCount(room) == Cardinality(DOMAIN room.snakes)

\* a search that takes a room that holds 50 snakes
findAvailableRoomFull(rs, tierId) ==
    LET open == {k \in 1..Len(rs) :
                    rs[k].tier = tierId /\ playerCount(rs[k]) <= ROOM_CAPACITY}
    IN IF open = {} THEN 0 ELSE CHOOSE k \in open : \A j \in open : k <= j

\* RoomManager.findAvailableRoom: the place of the first room of the tier
\* with fewer than 50 snakes, or 0
findAvailableRoom(rs, tierId) ==
    LET open == {k \in 1..Len(rs) :
                    rs[k].tier = tierId /\ playerCount(rs[k]) < ROOM_CAPACITY}
    IN IF open = {} THEN 0 ELSE CHOOSE k \in open : \A j \in open : k <= j

\* RoomManager.createRoom: new Room(roomId, tier, io)
createRoom(t, at) ==
    [id |-> <<t.id, at>>, tier |-> t.id, buy_in |-> t.buy_in, createdAt |-> at,
     snakes |-> <<>>, emptySince |-> at]

\* of a snake the manager's commands reach the target and the boost flag
FreshSnake == [aimed |-> FALSE, boosting |-> FALSE]

\* the cleanup test of RoomManager.tick
expired(room, at) == playerCount(room) = 0 /\ at - room.createdAt > EMPTY_ROOM_MS

ManagerInit ==
    /\ tier \in {t \in Tiers : t.buy_in = 0}
    /\ snakes = <<>>
    /\ players = <<>>
    /\ food = <<>>
    /\ nextFoodId = 1
    /\ totalKills = 0
    /\ kills = <<>>
    /\ ticks = 0
    /\ cmds = 0
    /\ log = EmptyLog
    /\ bots = <<>>
    /\ timers = NoTimers
    /\ manager = NoManager
    /\ now = 0

ManagerFrame ==
    UNCHANGED <<tier, snakes, players, food, nextFoodId, totalKills, kills, ticks,
                bots, timers>>

\* Date.now() moves on
Advance(dt) ==
    /\ now + dt <= MaxNow
    /\ now' = now + dt
    /\ log' = Did("advance", None)
    /\ UNCHANGED <<manager, cmds>>
    /\ ManagerFrame

\* a call of one of the RoomManager's methods for a connection
ManagerCommand ==
    /\ cmds' = cmds + 1
    /\ UNCHANGED now
    /\ ManagerFrame

\* the place of the room a connection is routed to, or 0
routed(m, socketId) ==
    IF socketId \notin DOMAIN m.playerRooms THEN 0
    ELSE LET at == {k \in 1..Len(m.rooms) : m.rooms[k].id = m.playerRooms[socketId]}
         IN IF at = {} THEN 0 ELSE CHOOSE k \in at : TRUE

\* RoomManager.joinRoom; the history keeps the tier id asked for
JoinRoom(socketId, tierId) ==
    /\ cmds < MaxManagerCmds
    /\ ManagerCommand
    /\ LET t == resolveTier(tierId)
           found == findAvailableRoom(manager.rooms, t.id)
           rs == IF found = 0 THEN Append(manager.rooms, createRoom(t, now))
                 ELSE manager.rooms
           k == IF found = 0 THEN Len(rs) ELSE found
       IN manager' = [manager EXCEPT
                         !.rooms = [rs EXCEPT ![k].snakes =
                                       (socketId :> FreshSnake) @@ @],
                         !.playerRooms = (socketId :> rs[k].id) @@ @,
                         !.removed = <<>>]
    /\ log' = [Did("joinRoom", socketId) EXCEPT !.out = <<tierId>>]

\* Room.removePlayer, as the manager sees it
leave(m, k, socketId) ==
    [m EXCEPT !.rooms[k].snakes = [id \in (DOMAIN @) \ {socketId} |-> @[id]],
              !.rooms[k].emptySince =
                  IF DOMAIN m.rooms[k].snakes = {socketId} THEN now ELSE @]

\* Map.delete on playerRooms
unroute(m, socketId) ==
    [m EXCEPT !.playerRooms = [id \in (DOMAIN @) \ {socketId} |-> @[id]]]

\* RoomManager.removePlayer
ManagerRemovePlayer(socketId) ==
    /\ cmds < MaxManagerCmds
    /\ ManagerCommand
    /\ manager' =
          LET k == routed(manager, socketId)
              m == [manager EXCEPT !.removed = <<>>]
          IN IF socketId \notin DOMAIN manager.playerRooms THEN m
             ELSE IF k = 0 THEN unroute(m, socketId)
             ELSE unroute(leave(m, k, socketId), socketId)
    /\ log' = Did("removePlayer", socketId)

\* an input delivered to every room that holds a snake of the connection
ManagerHandleInputAll(socketId) ==
    /\ cmds < MaxManagerCmds
    /\ ManagerCommand
    /\ manager' = [manager EXCEPT
                      !.rooms = [k \in 1..Len(@) |->
                                    IF socketId \in DOMAIN @[k].snakes
                                    THEN [@[k] EXCEPT !.snakes[socketId].aimed = TRUE]
                                    ELSE @[k]],
                      !.removed = <<>>]
    /\ log' = Did("handleInput", socketId)

\* RoomManager.handleInput
ManagerHandleInput(socketId) ==
    /\ cmds < MaxManagerCmds
    /\ ManagerCommand
    /\ manager' =
          LET k == routed(manager, socketId)
              m == [manager EXCEPT !.removed = <<>>]
          IN IF k = 0 \/ socketId \notin DOMAIN manager.rooms[k].snakes THEN m
             ELSE [m EXCEPT !.rooms[k].snakes[socketId].aimed = TRUE]
    /\ log' = Did("handleInput", socketId)

\* RoomManager.handleBoost
ManagerHandleBoost(socketId, active) ==
    /\ cmds < MaxManagerCmds
    /\ ManagerCommand
    /\ manager' =
          LET k == routed(manager, socketId)
              m == [manager EXCEPT !.removed = <<>>]
          IN IF k = 0 \/ socketId \notin DOMAIN manager.rooms[k].snakes THEN m
             ELSE [m EXCEPT !.rooms[k].snakes[socketId].boosting = active]
    /\ log' = Did("handleBoost", socketId)

\* RoomManager.respawnPlayer: what it returns is null or the new snake
ManagerRespawnPlayer(socketId) ==
    /\ cmds < MaxManagerCmds
    /\ ManagerCommand
    /\ LET k == routed(manager, socketId)
           m == [manager EXCEPT !.removed = <<>>]
       IN IF k = 0 \/ socketId \notin DOMAIN manager.rooms[k].snakes
          THEN /\ manager' = m
               /\ log' = Did("respawnPlayer", socketId)
          ELSE /\ manager' = [m EXCEPT !.rooms[k].snakes[socketId] = FreshSnake]
               /\ log' = [Did("respawnPlayer", socketId) EXCEPT
                             !.out = <<[snake |-> socketId]>>]

\* RoomManager.cashoutPlayer: what it returns is success or not
ManagerCashoutPlayer(socketId) ==
    /\ cmds < MaxManagerCmds
    /\ ManagerCommand
    /\ LET k == routed(manager, socketId)
           m == [manager EXCEPT !.removed = <<>>]
       IN IF k = 0 \/ socketId \notin DOMAIN manager.rooms[k].snakes
          THEN /\ manager' = m
               /\ log' = [Did("cashoutPlayer", socketId) EXCEPT
                             !.out = <<[success |-> FALSE]>>]
          ELSE /\ manager' = unroute(leave(m, k, socketId), socketId)
               /\ log' = [Did("cashoutPlayer", socketId) EXCEPT
                             !.out = <<[success |-> TRUE]>>]

\* the kill events an update of the room returns: none, or one
killsOf(room, killing) ==
    IF killing /\ playerCount(room) >= 2
    THEN LET pair == CHOOSE pr \in (DOMAIN room.snakes) \X (DOMAIN room.snakes) :
                        pr[1] # pr[2]
         IN <<[killerId |-> pair[1], victimId |-> pair[2]]>>
    ELSE <<>>

Emit(ev, room, to) == [ev |-> ev, room |-> room.id, to |-> to]

RECURSIVE killEmits(_, _)
\* for (const kill of kills): the kill to the room, died to the victim
killEmits(room, ks) ==
    IF ks = <<>> THEN <<>>
    ELSE <<Emit("kill", room, "room"), Emit("died", room, Head(ks).victimId)>>
         \o killEmits(room, Tail(ks))

RECURSIVE stateEmits(_, _, _)
\* for (const socketId of room.players.keys()): the state to a connected socket
stateEmits(room, ids, connected) ==
    IF ids = {} THEN <<>>
    ELSE LET socketId == CHOOSE id \in ids : TRUE
         IN (IF socketId \in connected THEN <<Emit("state", room, socketId)>> ELSE <<>>)
            \o stateEmits(room, ids \ {socketId}, connected)

\* a tick that publishes the leaderboard before the snapshots
publishedBoardFirst(room, ks, connected) ==
    <<Emit("update", room, "room")>>
    \o killEmits(room, ks)
    \o <<Emit("leaderboard", room, "room")>>
    \o stateEmits(room, DOMAIN room.snakes, connected)
    \o <<Emit("cleanup", room, "room")>>

\* the body of the loop of RoomManager.tick for one room, as what it calls
\* and emits, in order
published(room, ks, connected) ==
    <<Emit("update", room, "room")>>
    \o killEmits(room, ks)
    \o stateEmits(room, DOMAIN room.snakes, connected)
    \o <<Emit("leaderboard", room, "room")>>
    \o <<Emit("cleanup", room, "room")>>

RECURSIVE tickFrom(_, _, _, _)
\* RoomManager.tick: the loop over the rooms, from the room at place k
tickFrom(rs, k, killing, connected) ==
    IF k > Len(rs) THEN [trace |-> <<>>, kills |-> <<>>]
    ELSE LET ks == killsOf(rs[k], killing)
             rest == tickFrom(rs, k + 1, killing, connected)
         IN [trace |-> published(rs[k], ks, connected) \o rest.trace,
             kills |-> [j \in 1..Len(ks) |-> [room |-> rs[k].id,
                                              victimId |-> ks[j].victimId]]
                       \o rest.kills]

\* RoomManager.tick: every room is updated and published, then deleted when
\* the cleanup test holds
ManagerTick(killing, connected) ==
    /\ manager' = [manager EXCEPT
                      !.rooms = SelectSeq(@, LAMBDA r : ~expired(r, now)),
                      !.removed = SelectSeq(manager.rooms, LAMBDA r : expired(r, now))]
    /\ \E T \in {tickFrom(manager.rooms, 1, killing, connected)} :
          log' = [Did("tick", None) EXCEPT
                     !.out = <<[trace |-> T.trace, kills |-> T.kills,
                                connected |-> connected]>>]
    /\ UNCHANGED <<now, cmds>>
    /\ ManagerFrame

\* the sockets connected at a tick
Connections == {Ids, {"p1"}}

ManagerNext ==
    \/ \E dt \in ClockSteps : Advance(dt)
    \/ \E socketId \in Ids, tierId \in TierIds : JoinRoom(socketId, tierId)
    \/ \E socketId \in Ids : ManagerRemovePlayer(socketId)
    \/ \E connected \in {Ids} : ManagerTick(FALSE, connected)

ManagerSpec == ManagerInit /\ [][ManagerNext]_vars

(***************************************************************************)
(* The RoomManager and its connections: the manager is new, or it has a    *)
(* free room that 49 connections have joined; the connections p1 and p2    *)
(* join, with known and unknown tier ids, send their commands and leave.   *)
(***************************************************************************)
Crowd == {"c" \o ToString(n) : n \in 1..(ROOM_CAPACITY - 1)}

\* the manager after the crowd has joined the free tier
Crowded ==
    LET room == [createRoom(tiers[1], 0) EXCEPT
                    !.snakes = [id \in Crowd |-> FreshSnake]]
    IN [rooms |-> <<room>>, playerRooms |-> [id \in Crowd |-> room.id],
        removed |-> <<>>]

RouteInit ==
    /\ tier \in {t \in Tiers : t.buy_in = 0}
    /\ snakes = <<>>
    /\ players = <<>>
    /\ food = <<>>
    /\ nextFoodId = 1
    /\ totalKills = 0
    /\ kills = <<>>
    /\ ticks = 0
    /\ cmds = 0
    /\ log = EmptyLog
    /\ bots = <<>>
    /\ timers = NoTimers
    /\ manager \in {NoManager, Crowded}
    /\ now = 1000

RouteNext ==
    \/ \E socketId \in Ids, tierId \in TierIds \cup {9} : JoinRoom(socketId, tierId)
    \/ \E socketId \in Ids : ManagerRemovePlayer(socketId)
    \/ \E socketId \in Ids : ManagerHandleInput(socketId)
    \/ \E socketId \in Ids, active \in {TRUE} : ManagerHandleBoost(socketId, active)
    \/ \E socketId \in Ids : ManagerRespawnPlayer(socketId)
    \/ \E socketId \in Ids : ManagerCashoutPlayer(socketId)
    \/ \E killing \in BOOLEAN, connected \in Connections :
          ManagerTick(killing, connected)

RouteSpec == RouteInit /\ [][RouteNext]_vars

(***************************************************************************)
(* Reading the state and the history of the last tick.                     *)
(***************************************************************************)
SnakeOf(id) == snakes[IndexOf(snakes, id)]

PreSnake(id) == log.pre.snakes[IndexOf(log.pre.snakes, id)]

\* the last step was a Room.update
TickDone == log.pre # <<>>

Passes == {log.passes[k] : k \in 1..Len(log.passes)}

Deaths == {log.deaths[k] : k \in 1..Len(log.deaths)}

KillEvents == {kills[k] : k \in 1..Len(kills)}

\* the scan of a pass returns at the observed snake o
Returns(o) ==
    \/ o.body >= 0
    \/ o.head /\ (Abs(o.lenDiff) < 3 \/ o.lenDiff < 0)

\* the scan of pass p gets as far as the observed snake o
Reached(p, o) == \A o2 \in p.saw : o2.pos < o.pos => ~Returns(o2)

\* pass p evaluates the head-to-head test against o, and finds contact
HeadDetected(p, o) == Reached(p, o) /\ o.body = -1 /\ o.head

\* pass p finds its head on a segment of o past the grace window
BodyDetected(p, o) == Reached(p, o) /\ o.body >= 3

RECURSIVE SumOver(_, _)
\* the sum of f[x] over the x in S
SumOver(f, S) ==
    IF S = {} THEN 0
    ELSE LET x == CHOOSE y \in S : TRUE IN f[x] + SumOver(f, S \ {x})

\* the credited deaths of the last tick that name id as killer
CreditsOf(id) == {k \in 1..Len(log.deaths) : log.deaths[k].killer = id}

BountiesOf(id) == SumOver([k \in CreditsOf(id) |-> log.deaths[k].bounty], CreditsOf(id))

TotalValue(ss) == SumOver([i \in 1..Len(ss) |-> ss[i].value], 1..Len(ss))

FoodCount == Cardinality(DOMAIN food)

(***************************************************************************)
(* C1: in every reachable state every snake has at least MIN_LENGTH (3)    *)
(* segments, whatever setBoost, update, grow and shrink calls were made on *)
(* it since it was constructed with 10 segments.                           *)
(***************************************************************************)
C1_LengthAtLeastFloor == \A i \in 1..Len(snakes) : length(snakes[i]) >= MIN_LENGTH

\* a snake that boosted or shrank down to the floor
C1_Witness ==
    \E i \in 1..Len(snakes) :
        length(snakes[i]) = MIN_LENGTH /\ snakes[i].boosting /\ cmds >= 3

(***************************************************************************)
(* C2: when a pass of the tick finds head-to-head contact with a snake     *)
(* whose length differs by fewer than 3, both snakes are dead at the end   *)
(* of the tick, both deaths carry no killer and bounty 0, and the contact  *)
(* credits nothing: every snake's kills and value, every player's kills    *)
(* and earnings and the room's totalKills moved only by the credited       *)
(* deaths of the tick, of which these two are none.                        *)
(***************************************************************************)
C2_MutualHeadToHead ==
    \A p \in Passes : \A o \in p.saw :
        (HeadDetected(p, o) /\ Abs(o.lenDiff) < 3) =>
            /\ ~SnakeOf(p.id).alive
            /\ ~SnakeOf(o.other).alive
            /\ \A v \in {p.id, o.other} :
                  \E d \in Deaths : d.victim = v /\ d.killer = None /\ d.bounty = 0
            /\ \A d \in Deaths : d.victim \in {p.id, o.other} => d.killer = None
            /\ \A id \in SnakeIds(snakes) :
                  /\ SnakeOf(id).kills = PreSnake(id).kills + Cardinality(CreditsOf(id))
                  /\ SnakeOf(id).value = PreSnake(id).value + BountiesOf(id)
            /\ \A id \in DOMAIN players :
                  /\ players[id].kills = log.pre.players[id].kills
                                            + Cardinality(CreditsOf(id))
                  /\ players[id].earnings = log.pre.players[id].earnings + BountiesOf(id)
            /\ totalKills = log.pre.totalKills
                              + Cardinality({k \in 1..Len(log.deaths) :
                                                log.deaths[k].killer # None})

\* a tick in which two snakes of equal length met head to head
C2_Witness ==
    \E p \in Passes : \E o \in p.saw :
        /\ HeadDetected(p, o)
        /\ Abs(o.lenDiff) < 3
        /\ ~SnakeOf(p.id).alive
        /\ ~SnakeOf(o.other).alive

(***************************************************************************)
(* C3: when a pass of the tick finds head-to-head contact with a snake     *)
(* whose length differs by 3 or more, then after the tick the shorter is   *)
(* dead and the longer is alive with one more kill and the bounty added to *)
(* its value, whichever of the two is processed first.                     *)
(***************************************************************************)
C3_LongerKillsShorter ==
    \A p \in Passes : \A o \in p.saw :
        (HeadDetected(p, o) /\ Abs(o.lenDiff) >= 3) =>
            LET shorter == IF o.lenDiff < 0 THEN p.id ELSE o.other
                longer == IF o.lenDiff < 0 THEN o.other ELSE p.id
            IN /\ ~SnakeOf(shorter).alive
               /\ SnakeOf(longer).alive
               /\ SnakeOf(longer).kills = PreSnake(longer).kills + 1
               /\ \E d \in Deaths :
                     /\ d.victim = shorter
                     /\ d.killer = longer
                     /\ SnakeOf(longer).value = PreSnake(longer).value + d.bounty

(***************************************************************************)
(* C4: the list Room.update returns holds one kill event for every death   *)
(* applied in the tick, the deaths without a killer included: each death   *)
(* of the tick has its event, with the death's killer and bounty.          *)
(***************************************************************************)
C4_EveryDeathReported ==
    TickDone =>
        /\ Len(kills) = Len(log.deaths)
        /\ \A d \in Deaths :
              \E e \in KillEvents :
                  e.victimId = d.victim /\ e.killerId = d.killer /\ e.bounty = d.bounty

(***************************************************************************)
(* C5: a snake whose head the update of the tick clamped to the world edge *)
(* is dead at the end of the tick, by a death with no killer and bounty 0. *)
(***************************************************************************)
C5_WallDeath ==
    \A id \in log.clamped :
        /\ ~SnakeOf(id).alive
        /\ \E d \in Deaths : d.victim = id /\ d.killer = None /\ d.bounty = 0

(***************************************************************************)
(* C6: the bounty of every credited kill is the victim's value times       *)
(* (1 - platform fee of the room's tier).                                  *)
(***************************************************************************)
C6_BountyIsValueLessFee ==
    \A d \in Deaths :
        d.killer # None => d.bounty * 100 = d.victimValue * (100 - tier.platform_fee)

(***************************************************************************)
(* C7: a bounty is taken from the victim: a tick never raises the sum of   *)
(* the snakes' values, and each credited victim loses at least the bounty. *)
(***************************************************************************)
C7_BountyIsTransfer ==
    TickDone =>
        /\ TotalValue(snakes) <= TotalValue(log.pre.snakes)
        /\ \A d \in Deaths :
              d.killer # None =>
                  PreSnake(d.victim).value - SnakeOf(d.victim).value >= d.bounty

(***************************************************************************)
(* C8: when a pass of the tick finds the head of snake A on a segment of   *)
(* snake B at index 3 or later, A is dead after the tick, B is credited,   *)
(* and the returned list holds the event naming B as killer and A as       *)
(* victim with bounty = A.value * (1 - fee).                               *)
(***************************************************************************)
C8_BodyCollisionKills ==
    \A p \in Passes : \A o \in p.saw :
        BodyDetected(p, o) =>
            /\ ~SnakeOf(p.id).alive
            /\ SnakeOf(o.other).kills > PreSnake(o.other).kills
            /\ \E e \in KillEvents :
                  /\ e.killerId = o.other
                  /\ e.victimId = p.id
                  /\ e.bounty * 100 = PreSnake(p.id).value * (100 - tier.platform_fee)

\* C8 without the amount of the bounty: the part of C8 the code keeps
C8_BodyCollisionKillsAnyBounty ==
    \A p \in Passes : \A o \in p.saw :
        BodyDetected(p, o) =>
            /\ ~SnakeOf(p.id).alive
            /\ SnakeOf(o.other).kills > PreSnake(o.other).kills
            /\ \E e \in KillEvents : e.killerId = o.other /\ e.victimId = p.id

(***************************************************************************)
(* C9: a snake whose head overlaps only segments 0..2 of another snake,    *)
(* and is not in head-to-head contact with it, is not killed by the        *)
(* collision check against that snake.                                     *)
(***************************************************************************)
C9_GraceWindow ==
    \A p \in Passes : \A o \in p.saw :
        (o.grace /\ o.body = -1 /\ ~o.head) =>
            /\ p.result.killer # o.other
            /\ p.result.otherVictim # o.other
            /\ (\A o2 \in p.saw : o2.body = -1 /\ ~o2.head) => p.result = NoCollision

\* a snake whose head lies on the neck of another and that the check let live
C9_Witness ==
    \E p \in Passes : \E o \in p.saw :
        /\ o.grace
        /\ o.body = -1
        /\ ~o.head
        /\ p.result = NoCollision
        /\ SnakeOf(p.id).alive

(***************************************************************************)
(* C10, as claimed: after the replenish step at the end of each tick the   *)
(* number of food items equals the target population.                      *)
(***************************************************************************)
C10_FoodEqualsTarget == TickDone => FoodCount = TargetFoodCount

(***************************************************************************)
(* C10, amended: the number of food items is never below the target        *)
(* population; after the replenish step of a tick it is the target when    *)
(* the field held at most the target before the step, and otherwise what   *)
(* the field held (the food of death bursts is not trimmed).               *)
(***************************************************************************)
C10_FoodAtLeastTarget ==
    /\ FoodCount >= TargetFoodCount
    /\ TickDone => FoodCount = Max(TargetFoodCount, log.foodBefore)

\* a tick in which food was eaten and a death burst was dropped
C10_Witness ==
    /\ TickDone
    /\ \E i \in 1..Len(snakes) : snakes[i].foodEaten > 0
    /\ log.deaths # <<>>
    /\ FoodCount > TargetFoodCount

(***************************************************************************)
(* C11: when initialize or update starts from an empty food field, it ends *)
(* with exactly the target number of items, each of them inside the arena  *)
(* inset by the spawn margin (50) on every side.                           *)
(***************************************************************************)
C11_FillFromEmpty ==
    (log.op \in {"initialize", "update"} /\ log.foodBefore = 0) =>
        /\ FoodCount = TargetFoodCount
        /\ \A i \in DOMAIN food :
              /\ FOOD_MARGIN <= food[i].x /\ food[i].x <= WORLD_WIDTH - FOOD_MARGIN
              /\ FOOD_MARGIN <= food[i].y /\ food[i].y <= WORLD_HEIGHT - FOOD_MARGIN

\* a field filled from empty with an item on the margin and one at the far end
C11_Witness ==
    /\ log.op \in {"initialize", "update"}
    /\ log.foodBefore = 0
    /\ FoodCount = TargetFoodCount
    /\ \E i \in DOMAIN food : food[i].x = FOOD_MARGIN
    /\ \E i \in DOMAIN food : food[i].y > WORLD_HEIGHT - FOOD_MARGIN - 1000

(***************************************************************************)
(* C12: after a living snake eats N items of value 1 in a row its length   *)
(* is its prior length + N; after N consecutive updates with the boost     *)
(* flag set its length is max(MIN_LENGTH, prior length - N).               *)
(***************************************************************************)
C12_LengthRoundTrip ==
    /\ log.run.kind = "eat" =>
          length(snakes[1]) = log.run.from + log.run.n
    /\ log.run.kind = "boost" =>
          length(snakes[1]) = Max(MIN_LENGTH, log.run.from - log.run.n)

\* two boosted updates in a row that ran into the floor
C12_Witness ==
    /\ log.run.kind = "boost"
    /\ log.run.n >= 2
    /\ log.run.from > MIN_LENGTH
    /\ log.run.from - log.run.n < MIN_LENGTH
    /\ length(snakes[1]) = MIN_LENGTH

(***************************************************************************)
(* C13: after every update of a living snake its head lies inside the      *)
(* world inset by its head radius: headRadius <= x <= width - headRadius   *)
(* and headRadius <= y <= height - headRadius.                             *)
(***************************************************************************)
C13_HeadInsideWorld ==
    (log.op = "update" /\ snakes[1].alive) =>
        /\ headRadius(snakes[1]) <= snakes[1].x
        /\ snakes[1].x <= WORLD_WIDTH - headRadius(snakes[1])
        /\ headRadius(snakes[1]) <= snakes[1].y
        /\ snakes[1].y <= WORLD_HEIGHT - headRadius(snakes[1])

\* an update that ran into the west wall and left the head on the inset line
C13_Witness ==
    /\ log.op = "update"
    /\ snakes[1].alive
    /\ snakes[1].x = headRadius(snakes[1])
    /\ snakes[1].angle = PI

\* the angle between two headings, the shorter way round
CircDist(a, b) ==
    LET m == (a - b) % TAU
    IN Min(m, TAU - m)

(***************************************************************************)
(* C14: an update changes the heading by at most the turn rate, along the  *)
(* shorter way round toward the target heading: the angle to the target    *)
(* shrinks by exactly the turn rate, or the heading becomes exactly the    *)
(* target when the target is within one step.                              *)
(***************************************************************************)
C14_TurnBounded ==
    [][ (log'.op = "update" /\ snakes[1].alive) =>
            LET s == snakes[1]
                t == snakes'[1]
                d == CircDist(s.targetAngle, s.angle)
            IN /\ CircDist(t.angle, s.angle) <= turnRate(s)
               /\ d <= turnRate(s) => t.angle = s.targetAngle
               /\ d > turnRate(s) =>
                     /\ CircDist(t.angle, s.angle) = turnRate(s)
                     /\ CircDist(s.targetAngle, t.angle) = d - turnRate(s) ]_vars

\* an update turned from west toward north the shorter way, through PI
C14_Witness ==
    /\ log.op = "update"
    /\ snakes[1].angle > PI
    /\ snakes[1].targetAngle < 0
    /\ snakes[1].angle # snakes[1].targetAngle

\* the evaluations of BotPlayer.think that the last tick ran
Thinks == {log.thinks[k] : k \in 1..Len(log.thinks)}

(***************************************************************************)
(* C15: when a bot's think runs its rules with the bot's head within the   *)
(* wall margin of the west edge (x < BOT_WALL_MARGIN), the bot's target    *)
(* angle after it is 0, due east, whatever the other rules would choose.   *)
(***************************************************************************)
C15_WestWallTurnsEast ==
    \A t \in Thinks : (t.ran /\ t.x < BOT_WALL_MARGIN) => t.targetAngle = 0

\* the bot id is registered and its snake is in the room, dead
BotDead(botId) ==
    /\ botId \in BotIdsOf(bots)
    /\ botId \in SnakeIds(snakes)
    /\ ~SnakeOf(botId).alive

\* the bot id is registered and its snake is in the room, alive
BotAlive(botId) ==
    /\ botId \in BotIdsOf(bots)
    /\ botId \in SnakeIds(snakes)
    /\ SnakeOf(botId).alive

(***************************************************************************)
(* C16: a human player's snake that is dead is still in the room and dead  *)
(* after any step other than a respawnPlayer, removePlayer or addPlayer    *)
(* for its id: after a tick, an input, a boost command, a bot operation or *)
(* a deferred callback.                                                    *)
(***************************************************************************)
C16_DeadHumanStaysDead ==
    [][ \A id \in DOMAIN players :
           ( /\ id \in SnakeIds(snakes)
             /\ ~SnakeOf(id).alive
             /\ ~( /\ log'.op \in {"respawnPlayer", "removePlayer", "addPlayer"}
                   /\ log'.arg = id ) )
           => /\ id \in SnakeIds(snakes')
              /\ ~snakes'[IndexOf(snakes', id)].alive ]_vars

\* a deferred respawn ran and revived a bot while the human's snake lay dead
C16_Witness ==
    /\ log.op = "respawnTimer"
    /\ log.revived
    /\ "p1" \in SnakeIds(snakes)
    /\ ~SnakeOf("p1").alive

(***************************************************************************)
(* C17: a registered bot whose snake is dead when a tick runs is           *)
(* eventually alive again under the same id, or no longer registered,      *)
(* given that deferred callbacks run.                                      *)
(***************************************************************************)
C17_DeadBotRespawns ==
    \A botId \in BotIds :
        ( /\ BotDead(botId)
          /\ log.op = "update"
          /\ botId \in SnakeIds(log.pre.snakes)
          /\ ~PreSnake(botId).alive )
        ~> (BotAlive(botId) \/ botId \notin BotIdsOf(bots))

\* the deferred respawn found the bot dead and left a new living snake
C17_Witness ==
    /\ log.op = "respawnTimer"
    /\ log.revived
    /\ BotAlive(log.arg)
    /\ SnakeOf(log.arg).isBot
    /\ length(SnakeOf(log.arg)) = INITIAL_LENGTH

(***************************************************************************)
(* C18: after any sequence of the Room's operations, ticks and deferred    *)
(* callbacks, every key of players has a snake under the same key, and no  *)
(* bot's snake has an entry in players.                                    *)
(***************************************************************************)
C18_PlayersHaveSnakes ==
    /\ DOMAIN players \subseteq SnakeIds(snakes)
    /\ \A k \in 1..Len(snakes) : snakes[k].isBot => snakes[k].id \notin DOMAIN players
    /\ BotIdsOf(bots) \cap DOMAIN players = {}

\* bots were removed from a room that holds a player and still holds a bot
C18_Witness ==
    /\ log.op = "removeBots"
    /\ DOMAIN players # {}
    /\ \E k \in 1..Len(snakes) : snakes[k].isBot
    /\ Len(snakes) < 3

(***************************************************************************)
(* C19: handleInput and handleBoost leave the whole room unchanged when    *)
(* the snake they address is absent or dead; when it is alive they change  *)
(* only that snake's target angle, respectively its boost flag.            *)
(***************************************************************************)
C19_InputFrame ==
    [][ \A id \in Ids :
           (log'.op \in {"handleInput", "handleBoost"} /\ log'.arg = id) =>
              /\ UNCHANGED <<tier, players, food, nextFoodId, totalKills, bots, timers>>
              /\ (id \notin SnakeIds(snakes) \/ ~SnakeOf(id).alive) =>
                    snakes' = snakes
              /\ (id \in SnakeIds(snakes) /\ SnakeOf(id).alive) =>
                    LET i == IndexOf(snakes, id)
                    IN /\ Len(snakes') = Len(snakes)
                       /\ \A k \in 1..Len(snakes) : k # i => snakes'[k] = snakes[k]
                       /\ log'.op = "handleInput" =>
                             snakes'[i] = [snakes[i] EXCEPT
                                              !.targetAngle = snakes'[i].targetAngle]
                       /\ log'.op = "handleBoost" =>
                             snakes'[i] = [snakes[i] EXCEPT
                                              !.boosting = snakes'[i].boosting] ]_vars

\* an input arrived for a snake that lay dead in the room
C19_Witness ==
    /\ log.op = "handleInput"
    /\ log.arg \in SnakeIds(snakes)
    /\ ~SnakeOf(log.arg).alive

(***************************************************************************)
(* C20: the manager's tick deletes a room only if the room has had no      *)
(* players for longer than the grace period of 60 s without a break: a     *)
(* room whose last player left less than 60 s ago is not deleted, whatever *)
(* its age.                                                                *)
(***************************************************************************)
C20_RemovedOnlyAfterGrace ==
    \A k \in 1..Len(manager.removed) :
        now - manager.removed[k].emptySince > EMPTY_ROOM_MS

(***************************************************************************)
(* C29: a snake whose length equals the floor MIN_LENGTH is not boosting,  *)
(* so that it never moves at the boosted speed: both when setBoost(true)   *)
(* is called at the floor and when the boost cost has shrunk it down to    *)
(* the floor.                                                              *)
(***************************************************************************)
C29_NoBoostAtFloor ==
    \A k \in 1..Len(snakes) :
        (snakes[k].alive /\ length(snakes[k]) = MIN_LENGTH) => ~snakes[k].boosting

\* history: the sum of the bounties credited to id since it joined
RECURSIVE CreditedTo(_, _)
CreditedTo(credits, id) ==
    IF credits = <<>> THEN 0
    ELSE (IF Head(credits).to = id THEN Head(credits).bounty ELSE 0)
         + CreditedTo(Tail(credits), id)

\* the value the join rule seeds a snake of the player with
SeedOf(player) == IF player.demoMode THEN 0 ELSE tier.buy_in

(***************************************************************************)
(* C25: the earnings a successful cashoutPlayer reports do not exceed the  *)
(* seeded starting value of the player's current snake plus the sum of the *)
(* bounties credited to the player: each bounty counts once.               *)
(***************************************************************************)
C25_CashoutCountsBountyOnce ==
    [][ \A id \in Sockets :
           (log'.op = "cashoutPlayer" /\ log'.arg = id /\ log'.out[1].success) =>
              log'.out[1].earnings
                 <= SeedOf(players[id]) + CreditedTo(log.credits, id) ]_vars

(***************************************************************************)
(* C30: respawnPlayer for an id with player metadata replaces the snake    *)
(* under that id by a fresh living snake of the initial length whose value *)
(* is the tier's buy-in, or 0 in demo mode, and leaves the metadata and    *)
(* the rest of the room as they were; for an id without metadata it        *)
(* returns null and changes nothing.                                       *)
(***************************************************************************)
C30_RespawnFrame ==
    [][ \A id \in Sockets :
           (log'.op = "respawnPlayer" /\ log'.arg = id) =>
              /\ UNCHANGED <<tier, players, food, nextFoodId, totalKills, bots, timers>>
              /\ id \notin DOMAIN players => (snakes' = snakes /\ log'.out = <<>>)
              /\ id \in DOMAIN players =>
                    /\ log'.out # <<>>
                    /\ DeleteSnake(snakes', id) = DeleteSnake(snakes, id)
                    /\ Cardinality({k \in 1..Len(snakes') : snakes'[k].id = id}) = 1
                    /\ LET s == snakes'[IndexOf(snakes', id)]
                       IN /\ s.alive
                          /\ length(s) = INITIAL_LENGTH
                          /\ s.value = SeedOf(players[id])
                          /\ s.kills = 0
                          /\ ~s.boosting ]_vars

\* a demo player of a paid room died and was respawned
C30_Witness ==
    /\ log.op = "respawnPlayer"
    /\ log.arg \in DOMAIN players
    /\ players[log.arg].demoMode
    /\ players[log.arg].deaths > 0
    /\ tier.buy_in > 0
    /\ SnakeOf(log.arg).alive

(***************************************************************************)
(* C23: after adjustBotCount has run in a room without human players, the  *)
(* room has INITIAL_BOTS bots, 5, whatever their number was before.        *)
(***************************************************************************)
C23_NoHumansFiveBots ==
    (log.op = "adjustBotCount" /\ DOMAIN players = {}) => Len(bots) = INITIAL_BOTS

(***************************************************************************)
(* C24: after adjustBotCount has run in a room with h >= 1 human players,  *)
(* the room has exactly max(MIN_BOTS, MAX_BOTS - h) bots, each with its    *)
(* snake, whatever their number was before.                                *)
(***************************************************************************)
C24_HumansSlidingTarget ==
    (log.op = "adjustBotCount" /\ DOMAIN players # {}) =>
        /\ Len(bots) = Max(MIN_BOTS, MAX_BOTS - Cardinality(DOMAIN players))
        /\ Cardinality(BotIdsOf(bots)) = Len(bots)
        /\ {snakes[k].id : k \in {j \in 1..Len(snakes) : snakes[j].isBot}}
              = BotIdsOf(bots)

\* with seven humans in the room the adjustment took bots away, down to the
\* floor
C24_Witness ==
    /\ log.op = "adjustBotCount"
    /\ Cardinality(DOMAIN players) = MaxHumans
    /\ log.out[1] > MIN_BOTS
    /\ Len(bots) = MIN_BOTS

(***************************************************************************)
(* C27: within one tick every living snake has been advanced before any    *)
(* body or head-to-head check is evaluated: a pass that finds a contact    *)
(* finds it with a snake that was advanced earlier in the tick, never with *)
(* one whose turn in the iteration is still to come.                       *)
(***************************************************************************)
C27_AllAdvancedBeforeChecks ==
    \A p \in Passes : \A o \in p.saw :
        (BodyDetected(p, o) \/ HeadDetected(p, o)) =>
            o.pos < IndexOf(log.pre.snakes, p.id)

\* the commands the RoomManager routes to a connection's room
RoutingOps == {"handleInput", "handleBoost", "respawnPlayer", "cashoutPlayer",
               "removePlayer"}

C22_UnknownTierJoinsFree ==
    [][ \A id \in Ids :
           (log'.op = "joinRoom" /\ log'.arg = id /\ log'.out[1] \notin DOMAIN tiers) =>
              LET k == routed(manager', id)
              IN /\ k # 0
                 /\ id \in DOMAIN manager'.rooms[k].snakes
                 /\ manager'.rooms[k].tier = 1
                 /\ manager'.rooms[k].buy_in = 0 ]_vars

\* a connection that was in a room of the paid tier joined with an unknown
\* tier id
C22_Witness ==
    /\ log.op = "joinRoom"
    /\ log.out[1] \notin DOMAIN tiers
    /\ routed(manager, log.arg) # 0
    /\ \E k \in 1..Len(manager.rooms) :
          manager.rooms[k].buy_in > 0 /\ log.arg \in DOMAIN manager.rooms[k].snakes

(***************************************************************************)
(* C26: no room ever holds more than ROOM_CAPACITY, 50, players, and a     *)
(* join leaves a room that holds 50 as it is: the player goes to another   *)
(* room of the resolved tier.                                              *)
(***************************************************************************)
C26_RoomCapacity ==
    [][ /\ \A k \in 1..Len(manager'.rooms) :
              playerCount(manager'.rooms[k]) <= ROOM_CAPACITY
        /\ log'.op = "joinRoom" =>
              \A k \in 1..Len(manager.rooms) :
                 playerCount(manager.rooms[k]) = ROOM_CAPACITY =>
                    manager'.rooms[k] = manager.rooms[k] ]_vars

\* a connection asked for the tier of a room that holds 50 and was put into
\* a newer room of that tier
C26_Witness ==
    /\ log.op = "joinRoom"
    /\ \E k \in 1..Len(manager.rooms) :
          /\ playerCount(manager.rooms[k]) = ROOM_CAPACITY
          /\ log.arg \notin DOMAIN manager.rooms[k].snakes
          /\ routed(manager, log.arg) > k
          /\ manager.rooms[routed(manager, log.arg)].tier = manager.rooms[k].tier

\* history: what the last tick called and emitted
Trace == log.out[1].trace

\* history: the part of the trace that concerns the room rid
RoomTrace(rid) == SelectSeq(Trace, LAMBDA e : e.room = rid)

\* the steps of the tick for one room, in the order the claim gives
Rank(ev) ==
    CASE ev = "update" -> 1
      [] ev \in {"kill", "died"} -> 2
      [] ev = "state" -> 3
      [] ev = "leaderboard" -> 4
      [] ev = "cleanup" -> 5

Count(t, ev) == Cardinality({i \in 1..Len(t) : t[i].ev = ev})

(***************************************************************************)
(* C28: in a tick of the manager, for each room: the room is updated       *)
(* exactly once; then for each kill event the kill goes to the room and    *)
(* right after it died goes to the victim; then one state goes to each     *)
(* connected participant of the room; then the leaderboard goes to the     *)
(* room; then the empty-room check runs.  The rooms are handled one after  *)
(* the other.                                                              *)
(***************************************************************************)
C28_TickOrder ==
    log.op = "tick" =>
        /\ \A i, j, k \in 1..Len(Trace) :
              (i < j /\ j < k /\ Trace[i].room = Trace[k].room) =>
                 Trace[j].room = Trace[i].room
        /\ \A r \in {manager.rooms[k] : k \in 1..Len(manager.rooms)}
                    \cup {manager.removed[k] : k \in 1..Len(manager.removed)} :
              LET t == RoomTrace(r.id)
                  victims == SelectSeq(log.out[1].kills, LAMBDA e : e.room = r.id)
                  died == SelectSeq(t, LAMBDA e : e.ev = "died")
                  present == (DOMAIN r.snakes) \cap log.out[1].connected
              IN /\ Count(t, "update") = 1
                 /\ Count(t, "leaderboard") = 1
                 /\ Count(t, "cleanup") = 1
                 /\ \A i, j \in 1..Len(t) : i < j => Rank(t[i].ev) <= Rank(t[j].ev)
                 /\ \A i \in 1..Len(t) :
                       /\ t[i].ev = "kill" => (i < Len(t) /\ t[i + 1].ev = "died")
                       /\ t[i].ev = "died" => (i > 1 /\ t[i - 1].ev = "kill")
                 /\ Len(died) = Len(victims)
                 /\ \A i \in 1..Len(died) : died[i].to = victims[i].victimId
                 /\ {t[i].to : i \in {j \in 1..Len(t) : t[j].ev = "state"}} = present
                 /\ Count(t, "state") = Cardinality(present)

\* a tick went over two rooms, with a kill, with a participant that got its
\* state and with one that was not connected
C28_Witness ==
    /\ log.op = "tick"
    /\ Len(manager.rooms) >= 2
    /\ log.out[1].kills # <<>>
    /\ \E i \in 1..Len(Trace) : Trace[i].ev = "state"
    /\ \E k \in 1..Len(manager.rooms) :
          ~((DOMAIN manager.rooms[k].snakes) \subseteq log.out[1].connected)

(***************************************************************************)
(* C40: after any joins, leaves, cashouts and ticks, two joins of one      *)
(* connection in a row included, a connection has a snake in at most one   *)
(* room of the manager, and that room is the one its routing entry points  *)
(* to.                                                                     *)
(***************************************************************************)
C40_RoutingConsistent ==
    \A id \in Ids :
        LET holding == {k \in 1..Len(manager.rooms) :
                           id \in DOMAIN manager.rooms[k].snakes}
        IN /\ Cardinality(holding) <= 1
           /\ \A k \in holding : routed(manager, id) = k

(***************************************************************************)
(* C31: removePlayer(id) deletes the snake and the metadata entry of id,   *)
(* leaves the others as they are and returns the metadata; it adds a burst *)
(* of 5 + 2 * (number of segments) food items if the snake was alive, and  *)
(* no food at all if the snake was dead or absent.                         *)
(***************************************************************************)
C31_RemovePlayerBurst ==
    [][ \A id \in Ids :
           (log'.op = "removePlayer" /\ log'.arg = id) =>
              /\ snakes' = DeleteSnake(snakes, id)
              /\ id \notin SnakeIds(snakes')
              /\ DOMAIN players' = (DOMAIN players) \ {id}
              /\ \A other \in DOMAIN players' : players'[other] = players[other]
              /\ log'.out = IF id \in DOMAIN players THEN <<players[id]>> ELSE <<>>
              /\ \A f \in DOMAIN food : f \in DOMAIN food' /\ food'[f] = food[f]
              /\ Cardinality(DOMAIN food') =
                    Cardinality(DOMAIN food)
                    + (IF id \in SnakeIds(snakes) /\ SnakeOf(id).alive
                       THEN 5 + 2 * length(SnakeOf(id)) ELSE 0) ]_vars

\* a player that died in a tick, and dropped its food then, was removed
C31_Witness ==
    /\ log.op = "removePlayer"
    /\ log.out # <<>>
    /\ log.out[1].deaths > 0

\* history: the distance of (x, y) from the head of the viewer, rounded down
AwayFrom(viewer, x, y) ==
    LET dx == Abs(x - SnakeOf(viewer).x) \div 100
        dy == Abs(y - SnakeOf(viewer).y) \div 100
    IN Sqrt(dx * dx + dy * dy) * 100

(***************************************************************************)
(* C32: the state getVisibleState(viewer, r) returns holds only living     *)
(* snakes, each less than r * sqrt(1.5) from the viewer's head, and only   *)
(* food less than r from the viewer's head; when the viewer has no snake   *)
(* it is the full state: every living snake and all the food.              *)
(***************************************************************************)
C32_VisibleStateCulled ==
    log.op = "getVisibleState" =>
        LET view == log.out[1].view
            r == log.out[1].viewRadius
            shown == {view.snakes[k] : k \in 1..Len(view.snakes)}
            living == {snakes[k].id : k \in {j \in 1..Len(snakes) : snakes[j].alive}}
        IN IF log.arg \notin SnakeIds(snakes)
           THEN shown = living /\ view.food = DOMAIN food
           ELSE /\ shown \subseteq living
                /\ \A id \in shown :
                      2 * (AwayFrom(log.arg, SnakeOf(id).x, SnakeOf(id).y) \div 100)
                        * (AwayFrom(log.arg, SnakeOf(id).x, SnakeOf(id).y) \div 100)
                         <= 3 * (r \div 100) * (r \div 100)
                /\ view.food \subseteq DOMAIN food
                /\ \A f \in view.food :
                      AwayFrom(log.arg, food[f].x, food[f].y) <= r

\* a viewer was shown a state that leaves out a living snake and some food
C32_Witness ==
    /\ log.op = "getVisibleState"
    /\ log.arg \in SnakeIds(snakes)
    /\ log.out[1].view.snakes # <<>>
    /\ \E k \in 1..Len(snakes) :
          /\ snakes[k].alive
          /\ \A j \in 1..Len(log.out[1].view.snakes) :
                log.out[1].view.snakes[j] # snakes[k].id
    /\ log.out[1].view.food # {}
    /\ log.out[1].view.food # DOMAIN food

(***************************************************************************)
(* C37: a deferred respawn of a bot replaces the bot's snake only while    *)
(* that snake is dead: when the callback runs and the bot's snake is       *)
(* alive, the snake is kept as it is.                                      *)
(***************************************************************************)
C37_LivingBotKept ==
    [][ (/\ log'.op = "respawnTimer"
         /\ log'.arg \in SnakeIds(snakes)
         /\ snakes[IndexOf(snakes, log'.arg)].alive)
        => snakes' = snakes ]_vars

\* history: the last step was a call of think whose timer reached the think
\* interval; it found the bot's snake in the room and alive
Evaluated ==
    /\ log.op = "think"
    /\ log.out[1].thinkTimer + 1 >= BOT_THINK_INTERVAL
    /\ BotAlive(log.arg)

\* the bot the last call of think was made on, after the call
Thinker == bots[CHOOSE k \in 1..Len(bots) : bots[k].id = log.arg]

(***************************************************************************)
(* C33: a call of think counts one call more, and starts counting again    *)
(* at the tenth; a call that is not the tenth, and a call that finds the   *)
(* bot's snake missing or dead, leave the bot's desired heading as it was. *)
(***************************************************************************)
C33_ThinkInterval ==
    log.op = "think" =>
        LET before == log.out[1]
            due == before.thinkTimer + 1 >= BOT_THINK_INTERVAL
        IN /\ Thinker.thinkTimer = IF due THEN 0 ELSE before.thinkTimer + 1
           /\ (~due \/ ~BotAlive(log.arg))
                 => Thinker.targetAngle = before.targetAngle

\* a call between two evaluations, on a living bot with a danger within the
\* danger radius that an evaluation would turn away from
C33_Witness ==
    /\ log.op = "think"
    /\ log.out[1].thinkTimer + 1 < BOT_THINK_INTERVAL
    /\ BotAlive(log.arg)
    /\ nearestDanger(SnakeOf(log.arg), snakes) # Null

\* history: the wall margin reaches the head of s from some edge
InWallMargin(s) ==
    \/ s.x < BOT_WALL_MARGIN
    \/ s.x > WORLD_WIDTH - BOT_WALL_MARGIN
    \/ s.y < BOT_WALL_MARGIN
    \/ s.y > WORLD_HEIGHT - BOT_WALL_MARGIN

\* history: the points of a living competitor of s that think looks at, its
\* head and its first 10 segments, that lie within the danger radius
DangerPoints(s, other) ==
    {pt \in {Pt(other.x, other.y)}
            \cup {other.segments[k] : k \in 1..Min(10, length(other))} :
        hypotSq(pt.x - s.x, pt.y - s.y) < radiusSq(BOT_DANGER_RADIUS)}

\* history: the living competitors of s
Competitors(s) ==
    {snakes[j] : j \in {i \in 1..Len(snakes) : snakes[i].id # s.id /\ snakes[i].alive}}

(***************************************************************************)
(* C34: an evaluation with the bot's head within the wall margin of an     *)
(* edge sets the heading to that edge's wall-avoidance heading (east at    *)
(* the west edge, west at the east edge, south at the north edge, north at *)
(* the south edge); an evaluation outside the wall margins with a          *)
(* competitor at least 0.8 times as long in the danger radius sets the     *)
(* heading directly away from a point of a competitor.                     *)
(***************************************************************************)
C34_FirstRuleWins ==
    Evaluated =>
        LET s == SnakeOf(log.arg)
        IN /\ InWallMargin(s)
                => Thinker.targetAngle =
                      (IF s.x < BOT_WALL_MARGIN THEN 0
                       ELSE IF s.x > WORLD_WIDTH - BOT_WALL_MARGIN THEN PI
                       ELSE IF s.y < BOT_WALL_MARGIN THEN HALF_PI
                       ELSE -HALF_PI)
           /\ ( /\ ~InWallMargin(s)
                /\ \E other \in Competitors(s) :
                      /\ length(other) * 10 >= length(s) * 8
                      /\ DangerPoints(s, other) # {} )
                => \E other \in Competitors(s) :
                      \E pt \in DangerPoints(s, other) :
                         Thinker.targetAngle = Atan2(s.y - pt.y, s.x - pt.x)

(***************************************************************************)
(* C35: after an evaluation that applies the wall-avoidance rule the bot's *)
(* boost flag is false.                                                    *)
(***************************************************************************)
C35_WallRuleStopsBoost ==
    ( /\ Evaluated
      /\ truthy(calculateWallAvoidance(SnakeOf(log.arg).x, SnakeOf(log.arg).y,
                                       WORLD_WIDTH, WORLD_HEIGHT)) )
        => ~Thinker.boosting

(***************************************************************************)
(* C36: an evaluation outside the wall margins that turns the bot directly *)
(* away from a point of a competitor within the danger radius, its head or *)
(* one of its first 10 segments, does so only for a competitor at least    *)
(* 0.8 times as long as the bot.                                           *)
(***************************************************************************)
C36_OnlyLongThreats ==
    Evaluated =>
        LET s == SnakeOf(log.arg)
        IN \A other \in Competitors(s) :
              ( /\ ~InWallMargin(s)
                /\ Thinker.targetAngle # log.out[1].targetAngle
                /\ \E pt \in DangerPoints(s, other) :
                      Thinker.targetAngle = Atan2(s.y - pt.y, s.x - pt.x) )
                => length(other) * 10 >= length(s) * 8

\* history: what the snakes ate in the last Room.update, in order
Eaten == {log.eaten[k] : k \in 1..Len(log.eaten)}

DiedBefore(k) == {log.deaths[j].victim : j \in 1..(k - 1)}

(***************************************************************************)
(* C39: every death a Room.update handles is the death of a snake that was *)
(* alive before the update and has not died earlier in it, and its death   *)
(* counter goes up by one; a killer credited with a death is another       *)
(* snake, alive before the update and not dead earlier in it.              *)
(***************************************************************************)
C39_DeathsOfTheLiving ==
    TickDone =>
        \A k \in 1..Len(log.deaths) :
            LET d == log.deaths[k]
            IN /\ d.victim \in SnakeIds(log.pre.snakes)
               /\ PreSnake(d.victim).alive
               /\ d.victim \notin DiedBefore(k)
               /\ d.victim \in DOMAIN log.pre.players
                     => players[d.victim].deaths
                           = log.pre.players[d.victim].deaths + 1
               /\ d.killer # None
                     => /\ d.killer # d.victim
                        /\ d.killer \in SnakeIds(log.pre.snakes)
                        /\ PreSnake(d.killer).alive
                        /\ d.killer \notin DiedBefore(k)

\* an update in which both snakes of a head-to-head pair died
C39_Witness ==
    /\ TickDone
    /\ Len(log.deaths) = 2
    /\ log.deaths[1].mutual

====
